---- MODULE Spec2Model ----
(***************************************************************************)
(* Model of the mentor-request notifier of exercism/discord-bot-py         *)
(* (src/cogs/mentor_requests.py, class RequestNotifier).                   *)
(*                                                                         *)
(* The program state is the cog's fields (threads, requests, messages,     *)
(* next_task_time, queue, lock, request_interval, request_timestamps,      *)
(* request_sum_delay, request_counts).  The environment is the Exercism    *)
(* API (source), the Discord threads (sink) and the clock (now).           *)
(*                                                                         *)
(* Tracks are identified by their index in the sorted list self.tracks,    *)
(* request uuids by integers (each uuid belongs to one track), so that the *)
(* tuple comparison of the priority queue is integer comparison.  None is  *)
(* modelled by 0.                                                          *)
(*                                                                         *)
(* A remote call either takes effect and returns, or raises and has no     *)
(* effect on the remote side.                                              *)
(***************************************************************************)
EXTENDS Integers, Sequences, FiniteSets, Bags, TLC

\* ----------------------------------------------------------------- bounds
NumTracks == 2      \* number of configured tracks
MaxReq == 2         \* request uuids per track
MaxEvents == 2      \* environment events (source/sink changes, faults, restarts)
StartTime == 1000   \* int(time.time()) when the cog is constructed
Horizon == 6000     \* the clock is followed for this many seconds
MaxHistory == 3     \* timestamps in a history given to the estimator on its own
MaxBootTracks == 5  \* tracks in a list given to populate_task_queue on its own
MaxThreads == 3     \* threads in a channel given to load_data on its own

\* ------------------------------------------------------ program constants
EXERCISM_TRACK_POLL_MIN_SECONDS == 300
EXERCISM_TRACK_POLL_MAX_SECONDS == 1800
DISCORD_THREAD_POLL_SECONDS == 3600
DEFAULT_INTERVAL == 600
LOOP_SECONDS == 5
SPREAD_SECONDS == 300
MAX_TIMESTAMPS == 15
MAX_DEL_PER_POLL == 10

TASK_QUERY_EXERCISM == 1
TASK_QUERY_DISCORD == 2
TASK_DISCORD_ADD == 3
TASK_DISCORD_DEL == 4

None == 0

Tracks == 1..NumTracks
RequestIds(track) == {(track - 1) * MaxReq + k : k \in 1..MaxReq}
AllRequestIds == UNION {RequestIds(t) : t \in Tracks}
TrackOf(id) == CHOOSE t \in Tracks : id \in RequestIds(t)

\* ------------------------------------------------------------- utilities
Min(a, b) == IF a < b THEN a ELSE b
Max(a, b) == IF a > b THEN a ELSE b
SetMax(S) == CHOOSE x \in S : \A y \in S : y <= x
SetMin(S) == CHOOSE x \in S : \A y \in S : x <= y
Range(f) == {f[i] : i \in DOMAIN f}

RECURSIVE SeqSum(_)
SeqSum(s) == IF s = <<>> THEN 0 ELSE Head(s) + SeqSum(Tail(s))

\* insert x into an ascending sequence
RECURSIVE InsertAsc(_, _)
InsertAsc(x, s) ==
    IF s = <<>> THEN <<x>>
    ELSE IF x <= Head(s) THEN <<x>> \o s
    ELSE <<Head(s)>> \o InsertAsc(x, Tail(s))

\* list.sort() / sorted(): ascending
RECURSIVE SortAsc(_)
SortAsc(s) == IF s = <<>> THEN <<>> ELSE InsertAsc(Head(s), SortAsc(Tail(s)))

Reverse(s) == [i \in 1..Len(s) |-> s[Len(s) + 1 - i]]

\* sorted(..., reverse=True)
SortDesc(s) == Reverse(SortAsc(s))

\* s[:n]
Take(s, n) == SubSeq(s, 1, Min(n, Len(s)))

\* the values of a set as a list, in some order
RECURSIVE SetToSeq(_)
SetToSeq(S) ==
    IF S = {} THEN <<>>
    ELSE LET x == SetMin(S) IN <<x>> \o SetToSeq(S \ {x})

\* d[k] = v on a dict
Assign(d, k, v) == [x \in DOMAIN d \cup {k} |-> IF x = k THEN v ELSE d[x]]

\* del d[k]
Remove(d, k) == [x \in DOMAIN d \ {k} |-> d[x]]

EmptyDict == <<>>

\* ------------------------------------------------------------ the source
\* updated_at of a request, as int(datetime.fromisoformat(...).timestamp())
Timestamp(id) == 1000 * id

\* the url field of a request embeds its uuid
RequestUrl(id) == id

\* the rendered description of a request (get_requests)
Description(id) == [text |-> "request", url |-> RequestUrl(id)]

UnarchiveText == [text |-> "unarchive", url |-> None]

\* request_url_re.search(message.content): the uuid of the first request url
\* in the text, None when there is none
request_url_re_search(content) == content.url

\* ------------------------------------------------------------- the queue
\* A task is the tuple (task_time, task_type, track, details).
\* mutant: among tasks due at the same time the later task type goes first
TupleLess_type_reversed(a, b) ==
    \/ a[1] < b[1]
    \/ a[1] = b[1] /\ a[2] > b[2]
    \/ a[1] = b[1] /\ a[2] = b[2] /\ a[3] < b[3]
    \/ a[1] = b[1] /\ a[2] = b[2] /\ a[3] = b[3] /\ a[4] < b[4]

\* Python's tuple comparison: the first differing component decides.
TupleLess(a, b) ==
    \/ a[1] < b[1]
    \/ a[1] = b[1] /\ a[2] < b[2]
    \/ a[1] = b[1] /\ a[2] = b[2] /\ a[3] < b[3]
    \/ a[1] = b[1] /\ a[2] = b[2] /\ a[3] = b[3] /\ a[4] < b[4]

\* mutant: a tuple already in the queue is not added again
put_nowait_set(q, task) == IF BagIn(task, q) THEN q ELSE q (+) SetToBag({task})

\* asyncio.PriorityQueue.put_nowait: heappush, duplicates are kept
put_nowait(q, task) == q (+) SetToBag({task})

\* the entry heappop returns: the least one
QueueMin(q) == CHOOSE x \in BagToSet(q) : \A y \in BagToSet(q) : ~TupleLess(y, x)

\* mutant: the two least entries leave the queue
get_nowait_two(q) ==
    LET rest == q (-) SetToBag({QueueMin(q)})
    IN  [task |-> QueueMin(q),
         queue |-> IF rest = EmptyBag THEN rest ELSE rest (-) SetToBag({QueueMin(rest)})]

\* asyncio.PriorityQueue.get_nowait
get_nowait(q) == [task |-> QueueMin(q), queue |-> q (-) SetToBag({QueueMin(q)})]

qsize(q) == BagCardinality(q)

\* ---------------------------------------------------------- the estimator
\* mutant: the differences taken the other way round
Deltas_swapped(times) == [i \in 1..(Len(times) - 1) |-> times[i] - times[i + 1]]

\* [a - b for a, b in zip(times[1:], times)]
Deltas(times) == [i \in 1..(Len(times) - 1) |-> times[i + 1] - times[i]]

\* int(statistics.mean(intervals) * 0.90) for non-negative integer intervals
ScaledMean(intervals) == (9 * SeqSum(intervals)) \div (10 * Len(intervals))

\* mutant: the estimate is returned without clamping
exercism_poll_interval_unclamped(s, track) ==
    LET interval == s.request_interval[track]
        times == s.request_timestamps[track]
    IN  IF Len(times) < 2
        THEN [ret |-> interval,
              s |-> [s EXCEPT !.request_interval[track] =
                         Min((3 * interval) \div 2, EXERCISM_TRACK_POLL_MAX_SECONDS)]]
        ELSE LET sorted == SortAsc(times)
             IN  [ret |-> ScaledMean(Deltas(sorted)),
                  s |-> [s EXCEPT !.request_timestamps[track] = sorted]]

\* mutant: the grown interval is returned at once
exercism_poll_interval_eager(s, track) ==
    LET interval == s.request_interval[track]
        times == s.request_timestamps[track]
        grown == Min((3 * interval) \div 2, EXERCISM_TRACK_POLL_MAX_SECONDS)
    IN  IF Len(times) < 2
        THEN [ret |-> grown, s |-> [s EXCEPT !.request_interval[track] = grown]]
        ELSE LET sorted == SortAsc(times)
             IN  [ret |-> Min(Max(ScaledMean(Deltas(sorted)),
                                  EXERCISM_TRACK_POLL_MIN_SECONDS),
                              EXERCISM_TRACK_POLL_MAX_SECONDS),
                  s |-> [s EXCEPT !.request_timestamps[track] = sorted]]

\* mutant: with two or more timestamps the value returned is stored
exercism_poll_interval_adaptive(s, track) ==
    LET interval == s.request_interval[track]
        times == s.request_timestamps[track]
    IN  IF Len(times) < 2
        THEN [ret |-> interval,
              s |-> [s EXCEPT !.request_interval[track] =
                        Min((3 * interval) \div 2, EXERCISM_TRACK_POLL_MAX_SECONDS)]]
        ELSE LET sorted == SortAsc(times)
                 ret == Min(Max(ScaledMean(Deltas(sorted)),
                                EXERCISM_TRACK_POLL_MIN_SECONDS),
                            EXERCISM_TRACK_POLL_MAX_SECONDS)
             IN  [ret |-> ret,
                  s |-> [s EXCEPT !.request_timestamps[track] = sorted,
                                  !.request_interval[track] = ret]]

\* exercism_poll_interval: the value returned and the state left behind
\* (the stored interval grows; times.sort() sorts the stored list in place)
exercism_poll_interval(s, track) ==
    LET interval == s.request_interval[track]
        times == s.request_timestamps[track]
    IN  IF Len(times) < 2
        THEN [ret |-> interval,
              s |-> [s EXCEPT !.request_interval[track] =
                        Min((3 * interval) \div 2, EXERCISM_TRACK_POLL_MAX_SECONDS)]]
        ELSE LET sorted == SortAsc(times)
             IN  [ret |-> Min(Max(ScaledMean(Deltas(sorted)),
                                  EXERCISM_TRACK_POLL_MIN_SECONDS),
                              EXERCISM_TRACK_POLL_MAX_SECONDS),
                  s |-> [s EXCEPT !.request_timestamps[track] = sorted]]

\* ---------------------------------------------------------------- Discord
\* A post of a thread: [id, author, content]; the thread owner is the bot.
PostIds(s, thread_id) == {m.id : m \in s.sink[thread_id].posts}

\* an exception leaves the handler: nothing after it runs
Raise(s, exc, call) == [s EXCEPT !.exc = exc, !.failed = call]

\* the injected fault of this pass strikes at this call: the call times out
Timeout(s, call) == [s EXCEPT !.exc = "TimeoutError", !.failed = call, !.hit = TRUE]

\* thread.send(content): the new message; a message sent to an archived
\* thread makes the thread active again
thread_send(s, thread_id, content, fault, call) ==
    IF fault = call THEN Timeout(s, call)
    ELSE [s EXCEPT
            !.sink[thread_id].posts = @ \cup
                {[id |-> s.next_msg_id, author |-> "owner", content |-> content]},
            !.sink[thread_id].archived = FALSE,
            !.next_msg_id = @ + 1,
            !.sent = s.next_msg_id,
            !.ops = Append(@, <<"send", thread_id, s.next_msg_id, content.text>>)]

\* message.delete(): NotFound when the message is gone; an archived thread
\* rejects the deletion
message_delete(s, thread_id, message_id, fault, call) ==
    IF fault = call THEN Timeout(s, call)
    ELSE IF message_id \notin PostIds(s, thread_id)
    THEN Raise([s EXCEPT !.ops = Append(@, <<"delete_not_found", thread_id, message_id, "">>)],
               "NotFound", call)
    ELSE IF s.sink[thread_id].archived THEN Raise(s, "HTTPException", call)
    ELSE [s EXCEPT
            !.sink[thread_id].posts = {m \in @ : m.id # message_id},
            !.ops = Append(@, <<"delete", thread_id, message_id, "">>)]

\* get_thread: the cached thread, refreshed from Discord
get_thread(s, track, fault) ==
    IF track \notin DOMAIN s.threads THEN Raise(s, "LookupError", "threads")
    ELSE IF fault = "fetch_channel" THEN Timeout(s, "fetch_channel")
    ELSE IF s.sink[s.threads[track].id].deleted THEN Raise(s, "NotFound", "fetch_channel")
    ELSE [s EXCEPT
            !.threads[track].archived = s.sink[s.threads[track].id].archived,
            !.ops = Append(@, <<"fetch_channel", s.threads[track].id, None,
                                IF s.sink[s.threads[track].id].archived
                                THEN "archived" ELSE "active">>)]

\* unarchive: send a message and delete it again when the thread is archived
unarchive(s, track, fault) ==
    IF ~s.threads[track].archived THEN s
    ELSE LET s1 == thread_send(s, s.threads[track].id, UnarchiveText, fault, "unarchive_send")
         IN  IF s1.exc # "none" THEN s1
             ELSE message_delete(s1, s.threads[track].id, s1.sent, fault, "unarchive_delete")

\* ------------------------------------------------------------ the handlers
\* self.queue.put_nowait(task), remembered as pushed in this pass
Push(s, task) == [s EXCEPT !.queue = put_nowait(@, task), !.pushed = Append(@, task)]

RECURSIVE PushAll(_, _)
PushAll(s, tasks) ==
    IF tasks = <<>> THEN s ELSE PushAll(Push(s, Head(tasks)), Tail(tasks))

\* get_requests: uuid -> (timestamp, message) of what Exercism reports
get_requests(s, track) ==
    [id \in s.source[track] |-> <<Timestamp(id), Description(id)>>]

\* mutant: every reported request is taken as new
add_requests_all(s, track) == s.source[track]

\* set(requests) - set(self.messages[track])
add_requests(s, track) == s.source[track] \ DOMAIN s.messages[track]

\* mutant: every reported request is taken as one to remove
del_requests_reported(s, track) == s.source[track]

\* mutant: nothing is ever removed
del_requests_none(s, track) == {}

\* set(self.messages[track]) - set(requests)
del_requests(s, track) == DOMAIN s.messages[track] \ s.source[track]

\* mutant: every recorded request Exercism no longer reports is taken
DelChoices_all(del) == {del}

\* list(del_requests)[:10]: which ten is up to the set's iteration order
DelChoices(del) ==
    {D \in SUBSET del : Cardinality(D) = Min(MAX_DEL_PER_POLL, Cardinality(del))}

\* sum(a - b for a, b in zip(new, new[1:] + prior))
SumDelay(new, prior) ==
    LET rest == Tail(new) \o prior
        n == Min(Len(new), Len(rest))
    IN  SeqSum([i \in 1..n |-> new[i] - rest[i]])

\* mutant: one task for the first new request only
AddTasks_first_only(track, adds) ==
    IF adds = {} THEN <<>> ELSE <<<<0, TASK_DISCORD_ADD, track, SetMin(adds)>>>>

\* the tasks of: for request_id in add_requests: put_nowait((0, TASK_DISCORD_ADD, ...))
AddTasks(track, adds) ==
    [i \in 1..Cardinality(adds) |-> <<0, TASK_DISCORD_ADD, track, SetToSeq(adds)[i]>>]

\* mutant: only the description of the first request is stored
descriptions_first_only(requests) ==
    [id \in {x \in DOMAIN requests : x = SetMin(DOMAIN requests)} |-> requests[id][2]]

\* {request_id: message for request_id, (timestamp, message) in requests.items()}
descriptions(requests) == [id \in DOMAIN requests |-> requests[id][2]]

\* mutant: the oldest timestamps are kept
KeepNewest_oldest(times) == Take(SortAsc(times), MAX_TIMESTAMPS)

\* sorted(..., reverse=True)[:15]
KeepNewest(times) == Take(SortDesc(times), MAX_TIMESTAMPS)

\* fetch_track_requests; pick is the part of del_requests that list(...)[:10] keeps
fetch_track_requests(s, track, fault, pick) ==
    IF track \notin DOMAIN s.messages THEN s
    ELSE IF fault = "get_requests_timeout" THEN Timeout(s, "get_requests")
    ELSE IF fault = "get_requests_error"
    THEN [s EXCEPT !.exc = "ClientError", !.failed = "get_requests", !.hit = TRUE]
    ELSE
    LET requests == get_requests(s, track)
        adds == add_requests(s, track)
        s1 == [s EXCEPT !.requests = Assign(@, track, descriptions(requests)),
                        !.fetched = TRUE]
        new_request_timestamps == SortDesc([i \in 1..Cardinality(adds) |->
                                               requests[SetToSeq(adds)[i]][1]])
        old == s.request_timestamps[track]
        prior_ts == IF old # <<>> THEN <<SetMax(Range(old))>> ELSE <<>>
        s2 == IF adds = {} THEN s1
              ELSE PushAll(
                     [s1 EXCEPT
                        !.request_sum_delay[track] =
                            @ + SumDelay(new_request_timestamps, prior_ts),
                        !.request_counts[track] = @ + Cardinality(adds),
                        !.request_timestamps[track] =
                            KeepNewest(old \o new_request_timestamps)],
                     AddTasks(track, adds))
    IN  PushAll(s2, [i \in 1..Cardinality(pick) |->
                        <<0, TASK_DISCORD_DEL, track, SetToSeq(pick)[i]>>])

\* mutant: no new poll is queued when the fetch raised
queue_query_exercism_unless_raised(s, track) ==
    IF s.exc # "none" THEN s
    ELSE LET r == exercism_poll_interval(s, track)
         IN  Push([r.s EXCEPT !.ret = r.ret],
                  <<s.now + r.ret, TASK_QUERY_EXERCISM, track, None>>)

\* queue_query_exercism
queue_query_exercism(s, track) ==
    LET r == exercism_poll_interval(s, track)
    IN  Push([r.s EXCEPT !.ret = r.ret], <<s.now + r.ret, TASK_QUERY_EXERCISM, track, None>>)

\* mutant: the pattern matches no message
ScanHistory_no_match(posts, starter) == EmptyDict

\* the dict the history scan builds from the messages of the thread owner
\* other than thread.starter_message (starter is its id, None when the
\* thread has none): history is read newest first, so for a uuid posted
\* twice the oldest message is the one kept
ScanHistory(posts, starter) ==
    LET own == {m \in posts : /\ m.author = "owner"
                              /\ m.id # starter
                              /\ request_url_re_search(m.content) # None}
        refs == {request_url_re_search(m.content) : m \in own}
    IN  [r \in refs |->
            SetMin({m.id : m \in {x \in own : request_url_re_search(x.content) = r}})]

\* mutant: the scan replaces the dicts of all tracks by the one it built
fetch_discord_thread_reset(s, track, fault) ==
    LET s1 == get_thread(s, track, fault) IN
    IF s1.exc # "none" THEN s1 ELSE
    LET s2 == unarchive(s1, track, fault) IN
    IF s2.exc # "none" THEN s2 ELSE
    IF fault = "history" THEN Timeout(s2, "history") ELSE
    LET th == s2.sink[s2.threads[track].id]
        found == ScanHistory(th.posts, th.starter)
    IN  [s2 EXCEPT !.messages = Assign(EmptyDict, track, found)]

\* mutant: the scan adds what it finds to the dict the track already has
fetch_discord_thread_merge(s, track, fault) ==
    LET s1 == get_thread(s, track, fault) IN
    IF s1.exc # "none" THEN s1 ELSE
    LET s2 == unarchive(s1, track, fault) IN
    IF s2.exc # "none" THEN s2 ELSE
    IF fault = "history" THEN Timeout(s2, "history") ELSE
    LET th == s2.sink[s2.threads[track].id]
        found == ScanHistory(th.posts, th.starter)
        old == IF track \in DOMAIN s2.messages THEN s2.messages[track] ELSE EmptyDict
    IN  [s2 EXCEPT !.messages =
            Assign(@, track, [r \in DOMAIN old \cup DOMAIN found |->
                                 IF r \in DOMAIN found THEN found[r] ELSE old[r]])]

\* mutant: the scan fills self.messages[track] itself, emptied before the
\* thread is read
fetch_discord_thread_in_place(s, track, fault) ==
    LET s1 == get_thread(s, track, fault) IN
    IF s1.exc # "none" THEN s1 ELSE
    LET s2 == unarchive([s1 EXCEPT !.messages = Assign(@, track, EmptyDict)], track, fault) IN
    IF s2.exc # "none" THEN s2 ELSE
    IF fault = "history" THEN Timeout(s2, "history") ELSE
    LET th == s2.sink[s2.threads[track].id]
        found == ScanHistory(th.posts, th.starter)
    IN  [s2 EXCEPT !.messages = Assign(@, track, found)]

\* fetch_discord_thread
fetch_discord_thread(s, track, fault) ==
    LET s1 == get_thread(s, track, fault) IN
    IF s1.exc # "none" THEN s1 ELSE
    LET s2 == unarchive(s1, track, fault) IN
    IF s2.exc # "none" THEN s2 ELSE
    IF fault = "history" THEN Timeout(s2, "history") ELSE
    LET th == s2.sink[s2.threads[track].id]
        found == ScanHistory(th.posts, th.starter)
    IN  [s2 EXCEPT !.messages = Assign(@, track, found)]

\* mutant: no new scan is queued when the scan raised
queue_query_discord_unless_raised(s, track) ==
    IF s.exc # "none" THEN s
    ELSE Push(s, <<s.now + DISCORD_THREAD_POLL_SECONDS, TASK_QUERY_DISCORD, track, None>>)

\* mutant: the scan is queued at the cadence of the polls of Exercism
queue_query_discord_adaptive(s, track) ==
    Push(s, <<s.now + s.request_interval[track], TASK_QUERY_DISCORD, track, None>>)

\* queue_query_discord
queue_query_discord(s, track) ==
    Push(s, <<s.now + DISCORD_THREAD_POLL_SECONDS, TASK_QUERY_DISCORD, track, None>>)

\* mutant: the thread is un-archived before the request is posted
update_discord_add_unarchive(s, track, request_id, fault) ==
    LET s1 == get_thread(s, track, fault) IN
    IF s1.exc # "none" THEN s1 ELSE
    LET s1a == unarchive(s1, track, fault) IN
    IF s1a.exc # "none" THEN s1a ELSE
    IF track \notin DOMAIN s1a.requests \/ request_id \notin DOMAIN s1a.requests[track]
    THEN Raise(s1a, "KeyError", "requests") ELSE
    LET s2 == thread_send(s1a, s1a.threads[track].id, s1a.requests[track][request_id],
                          fault, "send") IN
    IF s2.exc # "none" THEN s2 ELSE
    IF track \notin DOMAIN s2.messages THEN Raise(s2, "KeyError", "messages") ELSE
    [s2 EXCEPT !.messages[track] = Assign(@, request_id, s2.sent)]

\* mutant: the uuid is recorded whether the send succeeded or not
update_discord_add_eager(s, track, request_id, fault) ==
    LET s1 == get_thread(s, track, fault) IN
    IF s1.exc # "none" THEN s1 ELSE
    IF track \notin DOMAIN s1.requests \/ request_id \notin DOMAIN s1.requests[track]
    THEN Raise(s1, "KeyError", "requests") ELSE
    LET s2 == thread_send(s1, s1.threads[track].id, s1.requests[track][request_id],
                          fault, "send") IN
    IF track \notin DOMAIN s2.messages THEN Raise(s2, "KeyError", "messages") ELSE
    [s2 EXCEPT !.messages[track] = Assign(@, request_id, s2.sent)]

\* update_discord_add
update_discord_add(s, track, request_id, fault) ==
    LET s1 == get_thread(s, track, fault) IN
    IF s1.exc # "none" THEN s1 ELSE
    IF track \notin DOMAIN s1.requests \/ request_id \notin DOMAIN s1.requests[track]
    THEN Raise(s1, "KeyError", "requests") ELSE
    LET s2 == thread_send(s1, s1.threads[track].id, s1.requests[track][request_id],
                          fault, "send") IN
    IF s2.exc # "none" THEN s2 ELSE
    IF track \notin DOMAIN s2.messages THEN Raise(s2, "KeyError", "messages") ELSE
    [s2 EXCEPT !.messages[track] = Assign(@, request_id, s2.sent)]

\* mutant: the message is looked up without asking whether it is recorded
update_discord_del_unguarded(s, track, request_id, fault) ==
    LET s1 == get_thread(s, track, fault) IN
    IF s1.exc # "none" THEN s1 ELSE
    LET s2 == unarchive(s1, track, fault) IN
    IF s2.exc # "none" THEN s2 ELSE
    IF track \notin DOMAIN s2.messages THEN Raise(s2, "KeyError", "messages") ELSE
    IF request_id \notin DOMAIN s2.messages[track]
    THEN Raise(s2, "KeyError", "messages") ELSE
    LET s3 == message_delete(s2, s2.threads[track].id, s2.messages[track][request_id],
                             fault, "delete") IN
    IF s3.exc = "NotFound" THEN [s3 EXCEPT !.exc = "none"] ELSE
    IF s3.exc # "none" THEN s3 ELSE
    [s3 EXCEPT !.messages[track] = Remove(@, request_id)]

\* update_discord_del
update_discord_del(s, track, request_id, fault) ==
    LET s1 == get_thread(s, track, fault) IN
    IF s1.exc # "none" THEN s1 ELSE
    LET s2 == unarchive(s1, track, fault) IN
    IF s2.exc # "none" THEN s2 ELSE
    IF track \notin DOMAIN s2.messages THEN Raise(s2, "KeyError", "messages") ELSE
    IF request_id \notin DOMAIN s2.messages[track] THEN s2 ELSE
    LET s3 == message_delete(s2, s2.threads[track].id, s2.messages[track][request_id],
                             fault, "delete") IN
    IF s3.exc = "NotFound" THEN [s3 EXCEPT !.exc = "none"] ELSE
    IF s3.exc # "none" THEN s3 ELSE
    [s3 EXCEPT !.messages[track] = Remove(@, request_id)]

\* ------------------------------------------------------------------ state
VARIABLES
    now,                \* int(time.time())
    source,             \* track -> the uuids Exercism reports for it
    sink,               \* thread id -> [archived, posts] on Discord
    next_msg_id,        \* the id Discord gives the next message
    threads,            \* self.threads: track -> [id, archived]
    requests,           \* self.requests: track -> uuid -> description
    messages,           \* self.messages: track -> uuid -> message id
    next_task_time,     \* self.next_task_time
    queue,              \* self.queue, a bag of tasks
    request_interval,   \* self.request_interval
    request_timestamps, \* self.request_timestamps
    request_sum_delay,  \* self.request_sum_delay
    request_counts,     \* self.request_counts
    lock,               \* self.lock.locked()
    task,               \* the task the running pass has taken, <<>> when none
    events,             \* environment events so far
    last,               \* what the pass of the task manager that just ended did
    hist                \* what has happened so far (see NoHistory)

vars == <<now, source, sink, next_msg_id, threads, requests, messages,
          next_task_time, queue, request_interval, request_timestamps,
          request_sum_delay, request_counts, lock, task, events, last, hist>>

env_vars == <<now, source, sink, next_msg_id, events>>
cog_vars == <<threads, requests, messages, next_task_time, queue, request_interval,
              request_timestamps, request_sum_delay, request_counts, lock, task>>

\* the state a handler works on
State ==
    [now |-> now, source |-> source, sink |-> sink, next_msg_id |-> next_msg_id,
     threads |-> threads, requests |-> requests, messages |-> messages,
     queue |-> queue, request_interval |-> request_interval,
     request_timestamps |-> request_timestamps,
     request_sum_delay |-> request_sum_delay, request_counts |-> request_counts,
     exc |-> "none", failed |-> "none", hit |-> FALSE, ops |-> <<>>,
     pushed |-> <<>>, sent |-> None, fetched |-> FALSE, ret |-> None]

NoPass == [kind |-> "none", task |-> <<>>, exc |-> "none", failed |-> "none",
           ops |-> <<>>, pushed |-> <<>>, fetched |-> FALSE, ret |-> None]

\* restarts: constructions of the cog after the first;
\* synced: the tracks whose last poll of Exercism succeeded, with no change of
\*   Exercism's requests for the track, no Discord call of a task of the track
\*   that raised (NotFound included) and no scan of its thread since;
\* stale: per track, how many recorded uuids Exercism no longer reported at
\*   the last successful poll;
\* deleted: the uuids whose message an update_discord_del of this process
\*   deleted, and that were not posted again
\* outstanding counts the calls of put_nowait minus the tasks taken for
\* dispatch; unapplied holds the additions and deletions (type, track, uuid)
\* whose last pass failed; scanned holds the tracks for which a QUERY_DISCORD
\* task has been dispatched since the construction
NoHistory == [restarts |-> 0, synced |-> {}, stale |-> <<>>, deleted |-> {},
              outstanding |-> 0, unapplied |-> {}, scanned |-> {}]

\* ------------------------------------------------------------- bootstrap
Orders == {o \in [1..NumTracks -> Tracks] : \A i, j \in 1..NumTracks : o[i] = o[j] => i = j}

\* range(0, 5 * 60, int(5 * 60 / len(tracks)))
SpreadStep(n) == SPREAD_SECONDS \div n
SpreadOffsets(n) == [i \in 1..((SPREAD_SECONDS + SpreadStep(n) - 1) \div SpreadStep(n)) |->
                        (i - 1) * SpreadStep(n)]

\* range() raises ValueError when its step is zero
RangeRaises(n) == SpreadStep(n) = 0

\* populate_task_queue from the i-th pair of zip(tracks, range(...)) on;
\* order is the outcome of random.shuffle, a list without repetitions, so
\* the tasks put in the queue are pairwise different
\* mutant: a track's poll of Exercism is seeded one second before its scan
populate_task_queue_poll_first(q, order, t0, i) ==
    LET offsets == SpreadOffsets(Len(order))
        pairs == i..Min(Len(order), Len(offsets))
    IN  q (+) SetToBag({<<t0 + offsets[j] + 1, TASK_QUERY_DISCORD, order[j], None>> :
                            j \in pairs})
          (+) SetToBag({<<t0 + offsets[j], TASK_QUERY_EXERCISM, order[j], None>> :
                            j \in pairs})

populate_task_queue(q, order, t0, i) ==
    LET offsets == SpreadOffsets(Len(order))
        pairs == i..Min(Len(order), Len(offsets))
    IN  q (+) SetToBag({<<t0 + offsets[j], TASK_QUERY_DISCORD, order[j], None>> :
                            j \in pairs})
          (+) SetToBag({<<t0 + offsets[j] + 1, TASK_QUERY_EXERCISM, order[j], None>> :
                            j \in pairs})

\* the number of put_nowait calls of populate_task_queue for n tracks
SeedCount(n) == 2 * Min(n, Len(SpreadOffsets(n)))

\* A thread of the channel: [name, archived, starter, posts]. A name is the
\* slug it spells and how it is capitalised; a track is a lower-case slug.
\* track.title(), the name load_data gives the thread it creates
title(track) == [slug |-> track, form |-> "title"]

\* mutant: a name that is not in lower case is the key of no track
lower_case_sensitive(name) == IF name.form = "lower" THEN name.slug ELSE NumTracks + 1

\* thread.name.lower(), the key of the thread in self.threads
lower(name) == name.slug

\* mutant: the message of a deleted thread still shows the thread
message_thread_stale(th) == TRUE

\* message.thread of the channel message a thread hangs on: nothing once
\* the thread is deleted
message_thread(th) == ~th.deleted

\* the threads the loop over channel.history reaches: if not message.thread: continue
HistoryThreads(snk) == {i \in DOMAIN snk : message_thread(snk[i])}

\* mutant: every name is resolved to the first thread of the channel
ThreadNamed_first(snk, n) == SetMin(DOMAIN snk)

\* the thread self.threads keeps for a key: channel.history yields the
\* newest message first, so of two threads of one key the oldest stays
ThreadNamed(snk, n) == SetMin({i \in HistoryThreads(snk) : lower(snk[i].name) = n})

\* the tracks load_data finds no thread for: if track in self.threads
MissingTracks(snk) ==
    {t \in Tracks : \A i \in HistoryThreads(snk) : lower(snk[i].name) # t}

\* channel.create_thread for every track without a thread, in the order of
\* self.tracks
create_threads(snk) ==
    LET missing == SetToSeq(MissingTracks(snk))
    IN  snk \o [k \in 1..Len(missing) |->
                   [name |-> title(missing[k]), archived |-> FALSE, starter |-> None,
                    deleted |-> FALSE, posts |-> {}]]

\* load_data: self.threads, by name, of the channel's threads and the
\* threads created for the tracks that had none
load_data(snk) ==
    LET all == create_threads(snk)
    IN  [n \in {lower(all[i].name) : i \in HistoryThreads(all)} |->
            [id |-> ThreadNamed(all, n), archived |-> all[ThreadNamed(all, n)].archived]]

\* __init__ and before_task_manager
Construct(order, t0, snk) ==
    /\ threads' = load_data(snk)
    /\ requests' = EmptyDict
    /\ messages' = EmptyDict
    /\ next_task_time' = 0
    /\ queue' = populate_task_queue(EmptyBag, order, t0, 1)
    /\ request_interval' = [t \in Tracks |-> DEFAULT_INTERVAL]
    /\ request_timestamps' = [t \in Tracks |-> <<>>]
    /\ request_sum_delay' = [t \in Tracks |-> 0]
    /\ request_counts' = [t \in Tracks |-> 0]
    /\ lock' = FALSE
    /\ task' = <<>>
    /\ last' = NoPass

\* what Exercism reports when the cog is constructed: one request per track
InitialRequests(track) == {SetMin(RequestIds(track))}

Init ==
    /\ now = StartTime
    /\ source = [t \in Tracks |-> InitialRequests(t)]
    /\ sink = [t \in Tracks |-> [name |-> title(t), archived |-> FALSE, starter |-> None,
                 deleted |-> FALSE, posts |-> {}]]
    /\ next_msg_id = 1
    /\ events = 0
    /\ threads = load_data(sink)
    /\ requests = EmptyDict
    /\ messages = EmptyDict
    /\ next_task_time = 0
    /\ \E order \in Orders : queue = populate_task_queue(EmptyBag, order, StartTime, 1)
    /\ request_interval = [t \in Tracks |-> DEFAULT_INTERVAL]
    /\ request_timestamps = [t \in Tracks |-> <<>>]
    /\ request_sum_delay = [t \in Tracks |-> 0]
    /\ request_counts = [t \in Tracks |-> 0]
    /\ lock = FALSE
    /\ task = <<>>
    /\ last = NoPass
    /\ hist = [NoHistory EXCEPT !.outstanding = SeedCount(NumTracks)]

\* ------------------------------------------------------- the task manager
\* mutant: the tick does not ask whether a pass is running
lock_locked_ignored == FALSE

\* self.lock.locked()
lock_locked == lock

\* a tick while a pass is running: if self.lock.locked(): return
TickLocked ==
    /\ lock_locked
    /\ UNCHANGED vars

\* mutant: the task that is not yet due is not put back
put_back_dropped(q, tsk) == q

\* mutant: the task that is not yet due goes back as due an hour later
put_back_postponed(q, tsk) ==
    put_nowait(q, <<tsk[1] + DISCORD_THREAD_POLL_SECONDS, tsk[2], tsk[3], tsk[4]>>)

\* self.queue.put_nowait(task) of the task that is not yet due
put_back(q, tsk) == put_nowait(q, tsk)

\* mutant: the wake-up time is one loop period after the due time
wake_time_late(tsk) == tsk[1] + LOOP_SECONDS

\* self.next_task_time = task_time, for the task that is not yet due
wake_time(tsk) == tsk[1]

\* task_manager up to the dispatch: nothing to do, or the next task is not
\* yet due and goes back, or the task is taken
PassStart ==
    /\ ~lock_locked
    /\ IF now < next_task_time \/ qsize(queue) = 0
       THEN UNCHANGED <<queue, next_task_time, lock, task, hist>>
       ELSE LET got == get_nowait(queue) IN
            IF now < got.task[1]
            THEN /\ queue' = put_back(got.queue, got.task)
                 /\ next_task_time' = wake_time(got.task)
                 /\ UNCHANGED <<lock, task, hist>>
            ELSE /\ queue' = got.queue
                 /\ task' = got.task
                 /\ lock' = TRUE
                 /\ hist' = [hist EXCEPT !.outstanding = @ - 1]
                 /\ UNCHANGED next_task_time
    /\ last' = NoPass
    /\ UNCHANGED <<threads, requests, messages, request_interval, request_timestamps,
                   request_sum_delay, request_counts>>
    /\ UNCHANGED env_vars

\* mutant: an addition or deletion that raised is put in the queue again
Dispatch_retry(s, tsk, fault, pick) ==
    LET track == tsk[3]
        details == tsk[4]
        again(r) == IF r.exc # "none" THEN Push(r, tsk) ELSE r
    IN  IF tsk[2] = TASK_QUERY_EXERCISM
        THEN LET s1 == fetch_track_requests(s, track, fault, pick)
             IN  [queue_query_exercism(s1, track) EXCEPT !.exc = s1.exc]
        ELSE IF tsk[2] = TASK_QUERY_DISCORD
        THEN LET s1 == fetch_discord_thread(s, track, fault)
             IN  [queue_query_discord(s1, track) EXCEPT !.exc = s1.exc]
        ELSE IF tsk[2] = TASK_DISCORD_ADD
        THEN again(update_discord_add(s, track, details, fault))
        ELSE IF tsk[2] = TASK_DISCORD_DEL
        THEN again(update_discord_del(s, track, details, fault))
        ELSE [s EXCEPT !.exc = "UnknownTaskType"]

\* the exception handlers of the dispatch: an exception of a handler is
\* logged, the finally clauses of the two polls queue the next poll
Dispatch(s, tsk, fault, pick) ==
    LET track == tsk[3]
        details == tsk[4]
    IN  IF tsk[2] = TASK_QUERY_EXERCISM
        THEN LET s1 == fetch_track_requests(s, track, fault, pick)
             IN  [queue_query_exercism(s1, track) EXCEPT !.exc = s1.exc]
        ELSE IF tsk[2] = TASK_QUERY_DISCORD
        THEN LET s1 == fetch_discord_thread(s, track, fault)
             IN  [queue_query_discord(s1, track) EXCEPT !.exc = s1.exc]
        ELSE IF tsk[2] = TASK_DISCORD_ADD
        THEN update_discord_add(s, track, details, fault)
        ELSE IF tsk[2] = TASK_DISCORD_DEL
        THEN update_discord_del(s, track, details, fault)
        ELSE [s EXCEPT !.exc = "UnknownTaskType"]

Faults == {"none", "fetch_channel", "unarchive_send", "unarchive_delete", "history",
           "send", "delete", "get_requests_timeout", "get_requests_error"}

\* what list(del_requests)[:10] may keep when the task polls Exercism
Picks(s, tsk, fault) ==
    IF /\ tsk[2] = TASK_QUERY_EXERCISM
       /\ tsk[3] \in DOMAIN s.messages
       /\ fault \notin {"get_requests_timeout", "get_requests_error"}
    THEN DelChoices(del_requests(s, tsk[3]))
    ELSE {{}}

\* the state after a pass that handled a task
Commit(s) ==
    /\ sink' = s.sink
    /\ next_msg_id' = s.next_msg_id
    /\ threads' = s.threads
    /\ requests' = s.requests
    /\ messages' = s.messages
    /\ queue' = s.queue
    /\ request_interval' = s.request_interval
    /\ request_timestamps' = s.request_timestamps
    /\ request_sum_delay' = s.request_sum_delay
    /\ request_counts' = s.request_counts

\* hist after the pass that handled tsk and ended in s
Record(h, tsk, s) ==
    LET track == tsk[3]
        polled == tsk[2] = TASK_QUERY_EXERCISM /\ s.fetched
        broken == \/ tsk[2] = TASK_QUERY_EXERCISM /\ ~s.fetched
                  \/ tsk[2] = TASK_QUERY_DISCORD
                  \/ /\ tsk[2] \in {TASK_DISCORD_ADD, TASK_DISCORD_DEL}
                     /\ (s.exc # "none" \/ s.failed # "none")
        added == tsk[2] = TASK_DISCORD_ADD /\ s.exc = "none"
        removed == /\ tsk[2] = TASK_DISCORD_DEL
                   /\ track \in DOMAIN messages
                   /\ tsk[4] \in DOMAIN messages[track] \ DOMAIN s.messages[track]
    IN  [h EXCEPT
           !.synced = IF polled THEN @ \cup {track}
                      ELSE IF broken THEN @ \ {track} ELSE @,
           !.stale = IF polled
                     THEN Assign(@, track, Cardinality(DOMAIN messages[track] \ source[track]))
                     ELSE @,
           !.deleted = IF added THEN @ \ {tsk[4]}
                       ELSE IF removed THEN @ \cup {tsk[4]} ELSE @,
           !.outstanding = @ + Len(s.pushed),
           !.unapplied = IF tsk[2] \notin {TASK_DISCORD_ADD, TASK_DISCORD_DEL} THEN @
                         ELSE IF s.exc # "none" \/ s.failed # "none"
                         THEN @ \cup {<<tsk[2], tsk[3], tsk[4]>>}
                         ELSE @ \ {<<tsk[2], tsk[3], tsk[4]>>},
           !.scanned = IF tsk[2] = TASK_QUERY_DISCORD THEN @ \cup {track} ELSE @]

\* mutant: a handler's exception leaves the pass without the lock released
lock_after_pass_kept(s) == s.exc # "none"

\* the lock after the pass: async with self.lock releases it, and except
\* Exception keeps every exception of a handler inside the pass
lock_after_pass(s) == FALSE

\* task_manager from the dispatch on: the handler runs, the lock is released
PassRun ==
    /\ lock
    /\ \E fault \in Faults :
         \E pick \in Picks(State, task, fault) :
           LET s == Dispatch(State, task, fault, pick)
           IN  /\ fault # "none" => s.hit /\ events < MaxEvents
               /\ events' = IF fault = "none" THEN events ELSE events + 1
               /\ Commit(s)
               /\ last' = [kind |-> "handled", task |-> task, exc |-> s.exc,
                           failed |-> s.failed, ops |-> s.ops, pushed |-> s.pushed,
                           fetched |-> s.fetched, ret |-> s.ret]
               /\ hist' = Record(hist, task, s)
               /\ lock' = lock_after_pass(s)
    /\ task' = <<>>
    /\ UNCHANGED <<now, source, next_task_time>>

\* ------------------------------------------------------------- the clock
\* the passes up to next_task_time return at once: the clock reaches it
Sleep ==
    /\ ~lock
    /\ now < next_task_time
    /\ next_task_time <= StartTime + Horizon
    /\ now' = next_task_time
    /\ UNCHANGED <<source, sink, next_msg_id, events>>
    /\ last' = NoPass
    /\ UNCHANGED <<cog_vars, hist>>

\* time passes: a tick of the loop, an await of a handler
Elapse ==
    /\ events < MaxEvents
    /\ now + LOOP_SECONDS <= StartTime + Horizon
    /\ now' = now + LOOP_SECONDS
    /\ events' = events + 1
    /\ UNCHANGED <<source, sink, next_msg_id>>
    /\ last' = NoPass
    /\ UNCHANGED <<cog_vars, hist>>

\* ------------------------------------------------------- the environment
\* Exercism reports another set of requests for a track
SourceChange ==
    /\ events < MaxEvents
    /\ \E t \in Tracks : \E S \in SUBSET RequestIds(t) :
         /\ S # source[t]
         /\ source' = [source EXCEPT ![t] = S]
         /\ hist' = [hist EXCEPT !.synced = @ \ {t}]
    /\ events' = events + 1
    /\ UNCHANGED <<now, sink, next_msg_id>>
    /\ last' = NoPass
    /\ UNCHANGED cog_vars

\* Discord archives a thread after inactivity
Archive ==
    /\ events < MaxEvents
    /\ \E th \in DOMAIN sink :
         /\ ~sink[th].archived
         /\ sink' = [sink EXCEPT ![th].archived = TRUE]
    /\ events' = events + 1
    /\ UNCHANGED <<now, source, next_msg_id>>
    /\ last' = NoPass
    /\ UNCHANGED <<cog_vars, hist>>

\* a moderator deletes a message of a thread
ExternalDelete ==
    /\ events < MaxEvents
    /\ \E th \in DOMAIN sink : \E m \in sink[th].posts :
         sink' = [sink EXCEPT ![th].posts = @ \ {m}]
    /\ events' = events + 1
    /\ UNCHANGED <<now, source, next_msg_id>>
    /\ last' = NoPass
    /\ UNCHANGED <<cog_vars, hist>>

\* a member posts the url of a request in a thread
OtherPost ==
    /\ events < MaxEvents
    /\ \E th \in DOMAIN sink : \E url \in RequestIds(th) :
         sink' = [sink EXCEPT
                    ![th].posts = @ \cup {[id |-> next_msg_id, author |-> "member",
                                           content |-> [text |-> "chat", url |-> url]]},
                    ![th].archived = FALSE]
    /\ next_msg_id' = next_msg_id + 1
    /\ events' = events + 1
    /\ UNCHANGED <<now, source>>
    /\ last' = NoPass
    /\ UNCHANGED <<cog_vars, hist>>

\* the process is restarted: the cog is constructed again, Discord and
\* Exercism keep their state
Restart ==
    /\ events < MaxEvents
    /\ \E order \in Orders : Construct(order, now, sink)
    /\ hist' = [NoHistory EXCEPT !.restarts = hist.restarts + 1,
                                 !.outstanding = SeedCount(NumTracks)]
    /\ events' = events + 1
    /\ UNCHANGED <<now, source, sink, next_msg_id>>

Next ==
    \/ TickLocked
    \/ PassStart
    \/ PassRun
    \/ Sleep
    \/ Elapse
    \/ SourceChange
    \/ Archive
    \/ ExternalDelete
    \/ OtherPost
    \/ Restart

Spec == Init /\ [][Next]_vars

\* ------------------------------------------------- a backlog in the thread
\* The cog is constructed again while the thread of the first track holds
\* the posts of more requests than one poll removes, none of them reported
\* by Exercism any more; the environment stays quiet from then on.
BacklogSize == MAX_DEL_PER_POLL + 1
OldRequest(k) == 100 + k

InitBacklog ==
    /\ now = StartTime
    /\ source = [t \in Tracks |-> InitialRequests(t)]
    /\ sink = [t \in Tracks |->
                 [name |-> title(t), archived |-> FALSE, starter |-> None,
                  deleted |-> FALSE,
                  posts |-> IF t = 1
                            THEN {[id |-> k, author |-> "owner",
                                   content |-> Description(OldRequest(k))] :
                                     k \in 1..BacklogSize}
                            ELSE {}]]
    /\ next_msg_id = BacklogSize + 1
    /\ events = MaxEvents
    /\ threads = load_data(sink)
    /\ requests = EmptyDict
    /\ messages = EmptyDict
    /\ next_task_time = 0
    /\ \E order \in Orders : queue = populate_task_queue(EmptyBag, order, StartTime, 1)
    /\ request_interval = [t \in Tracks |-> DEFAULT_INTERVAL]
    /\ request_timestamps = [t \in Tracks |-> <<>>]
    /\ request_sum_delay = [t \in Tracks |-> 0]
    /\ request_counts = [t \in Tracks |-> 0]
    /\ lock = FALSE
    /\ task = <<>>
    /\ last = NoPass
    /\ hist = [NoHistory EXCEPT !.restarts = 1, !.outstanding = SeedCount(NumTracks)]

\* Exercism reports more new requests for the first track than one poll
\* would remove; the environment stays quiet from then on.
InitBurst ==
    /\ now = StartTime
    /\ source = [t \in Tracks |->
                   IF t = 1 THEN {OldRequest(k) : k \in 1..BacklogSize}
                   ELSE InitialRequests(t)]
    /\ sink = [t \in Tracks |-> [name |-> title(t), archived |-> FALSE, starter |-> None,
                 deleted |-> FALSE, posts |-> {}]]
    /\ next_msg_id = 1
    /\ events = MaxEvents
    /\ threads = load_data(sink)
    /\ requests = EmptyDict
    /\ messages = EmptyDict
    /\ next_task_time = 0
    /\ \E order \in Orders : queue = populate_task_queue(EmptyBag, order, StartTime, 1)
    /\ request_interval = [t \in Tracks |-> DEFAULT_INTERVAL]
    /\ request_timestamps = [t \in Tracks |-> <<>>]
    /\ request_sum_delay = [t \in Tracks |-> 0]
    /\ request_counts = [t \in Tracks |-> 0]
    /\ lock = FALSE
    /\ task = <<>>
    /\ last = NoPass
    /\ hist = [NoHistory EXCEPT !.outstanding = SeedCount(NumTracks)]

SpecMirror == (Init \/ InitBacklog \/ InitBurst) /\ [][Next]_vars

\* ------------------------------------------------------- a grown history
\* The cog has run for a while: the thread of the first track has been
\* scanned and holds the posts of the recorded requests, the track has a
\* history of up to 15 timestamps of requests seen before, stored oldest
\* first as exercism_poll_interval leaves it, and Exercism reports requests
\* older than, between and newer than those; the environment stays quiet
\* from then on.
PriorTimestamp(i) == 500 + 1000 * i
PriorHistory(k) == [i \in 1..k |-> PriorTimestamp(i)]
HistoryIds == RequestIds(1) \cup {OldRequest(1), OldRequest(2)}

InitHistory ==
    /\ now = StartTime
    /\ \E S \in SUBSET HistoryIds : source = [t \in Tracks |-> IF t = 1 THEN S ELSE {}]
    /\ \E M \in SUBSET {SetMin(RequestIds(1)), OldRequest(1)} :
         /\ sink = [t \in Tracks |->
                      [name |-> title(t), archived |-> FALSE, starter |-> None,
                       deleted |-> FALSE,
                       posts |-> IF t = 1
                                 THEN {[id |-> id, author |-> "owner",
                                        content |-> Description(id)] : id \in M}
                                 ELSE {}]]
         /\ messages = [t \in Tracks |-> IF t = 1 THEN [id \in M |-> id] ELSE EmptyDict]
         /\ requests = [t \in Tracks |->
                          IF t = 1 THEN [id \in M |-> Description(id)] ELSE EmptyDict]
    /\ next_msg_id = OldRequest(2) + 1
    /\ events = MaxEvents
    /\ threads = load_data(sink)
    /\ next_task_time = 0
    /\ queue = populate_task_queue(EmptyBag, [i \in 1..NumTracks |-> i], StartTime, 1)
    /\ request_interval = [t \in Tracks |-> DEFAULT_INTERVAL]
    /\ \E k \in 0..MAX_TIMESTAMPS :
         /\ request_timestamps = [t \in Tracks |-> IF t = 1 THEN PriorHistory(k) ELSE <<>>]
         /\ request_sum_delay = [t \in Tracks |->
                                   IF t = 1 /\ k > 0
                                   THEN PriorTimestamp(k) - PriorTimestamp(1) ELSE 0]
         /\ request_counts = [t \in Tracks |-> IF t = 1 THEN k ELSE 0]
    /\ lock = FALSE
    /\ task = <<>>
    /\ last = NoPass
    /\ hist = [NoHistory EXCEPT !.outstanding = SeedCount(NumTracks)]

SpecHistory == (Init \/ InitHistory) /\ [][Next]_vars

\* ------------------------------------------------ handlers called directly
\* A task the polls would not queue (a handler called again for the same
\* request) is put in the queue.
InjectTask ==
    /\ events < MaxEvents
    /\ \E type \in {TASK_DISCORD_ADD, TASK_DISCORD_DEL} :
         \E t \in Tracks : \E id \in RequestIds(t) :
           queue' = put_nowait(queue, <<0, type, t, id>>)
    /\ events' = events + 1
    /\ last' = NoPass
    /\ hist' = [hist EXCEPT !.outstanding = @ + 1]
    /\ UNCHANGED <<now, source, sink, next_msg_id>>
    /\ UNCHANGED <<threads, requests, messages, next_task_time, request_interval,
                   request_timestamps, request_sum_delay, request_counts, lock, task>>

NextCall ==
    \/ Next
    \/ InjectTask

SpecCall == Init /\ [][NextCall]_vars

\* ------------------------------------------------- the estimator on its own
\* exercism_poll_interval called on the histories a track can have: at most
\* MaxHistory timestamps, newest first as fetch_track_requests leaves them or
\* oldest first as the last call of exercism_poll_interval left them.
EstimatorTimes == {100, 130, 160, 1000, 2000, 5000}

Sorted(s) == \A i \in 1..(Len(s) - 1) : s[i] <= s[i + 1]

Histories ==
    UNION {{h \in [1..n -> EstimatorTimes] : Sorted(h) \/ Sorted(Reverse(h))} :
              n \in 0..MaxHistory}

InitEstimator ==
    /\ now = StartTime
    /\ source = [t \in Tracks |-> {}]
    /\ sink = [t \in Tracks |-> [name |-> title(t), archived |-> FALSE, starter |-> None,
                 deleted |-> FALSE, posts |-> {}]]
    /\ next_msg_id = 1
    /\ events = 0
    /\ threads = load_data(sink)
    /\ requests = EmptyDict
    /\ messages = EmptyDict
    /\ next_task_time = 0
    /\ queue = EmptyBag
    /\ request_interval = [t \in Tracks |-> DEFAULT_INTERVAL]
    /\ \E h \in Histories :
         request_timestamps = [t \in Tracks |-> IF t = 1 THEN h ELSE <<>>]
    /\ request_sum_delay = [t \in Tracks |-> 0]
    /\ request_counts = [t \in Tracks |-> 0]
    /\ lock = FALSE
    /\ task = <<>>
    /\ last = NoPass
    /\ hist = NoHistory

\* one call of exercism_poll_interval
CallPollInterval ==
    /\ \E t \in Tracks :
         LET r == exercism_poll_interval(State, t)
         IN  /\ request_interval' = r.s.request_interval
             /\ request_timestamps' = r.s.request_timestamps
             /\ last' = [NoPass EXCEPT !.kind = "interval", !.task = <<t>>, !.ret = r.ret]
    /\ UNCHANGED <<now, source, sink, next_msg_id, events, threads, requests, messages,
                   next_task_time, queue, request_sum_delay, request_counts, lock, task, hist>>

NextEstimator == CallPollInterval

SpecEstimator == InitEstimator /\ [][NextEstimator]_vars

\* ------------------------------------------- populate_task_queue on its own
\* populate_task_queue called for a list of n configured tracks: every n up
\* to MaxBootTracks with every outcome of the shuffle, and the sizes around
\* the length of the spread with the list as sorted or reversed.  The tracks
\* of the list are the keys of self.threads, which load_data has filled.
BootSizes == (1..MaxBootTracks) \cup
             {SPREAD_SECONDS - 1, SPREAD_SECONDS, SPREAD_SECONDS + 1}

Shuffles(n) ==
    IF n <= MaxBootTracks
    THEN {o \in [1..n -> 1..n] : \A i, j \in 1..n : o[i] = o[j] => i = j}
    ELSE {[i \in 1..n |-> i], [i \in 1..n |-> n + 1 - i]}

InitBootstrap ==
    /\ now = StartTime
    /\ source = [t \in Tracks |-> {}]
    /\ sink = [t \in Tracks |-> [name |-> title(t), archived |-> FALSE, starter |-> None,
                 deleted |-> FALSE, posts |-> {}]]
    /\ next_msg_id = 1
    /\ events = 0
    /\ \E n \in BootSizes : threads = [t \in 1..n |-> [id |-> t, archived |-> FALSE]]
    /\ requests = EmptyDict
    /\ messages = EmptyDict
    /\ next_task_time = 0
    /\ queue = EmptyBag
    /\ request_interval = [t \in Tracks |-> DEFAULT_INTERVAL]
    /\ request_timestamps = [t \in Tracks |-> <<>>]
    /\ request_sum_delay = [t \in Tracks |-> 0]
    /\ request_counts = [t \in Tracks |-> 0]
    /\ lock = FALSE
    /\ task = <<>>
    /\ last = NoPass
    /\ hist = NoHistory

\* one call of populate_task_queue from before_task_manager
CallPopulate ==
    /\ last.kind = "none"
    /\ LET n == Cardinality(DOMAIN threads) IN
       IF RangeRaises(n)
       THEN /\ queue' = queue
            /\ hist' = hist
            /\ last' = [NoPass EXCEPT !.kind = "populate", !.exc = "ValueError"]
       ELSE \E order \in Shuffles(n) :
            /\ queue' = populate_task_queue(queue, order, now, 1)
            /\ hist' = [hist EXCEPT !.outstanding = @ + SeedCount(n)]
            /\ last' = [NoPass EXCEPT !.kind = "populate"]
    /\ UNCHANGED <<now, source, sink, next_msg_id, events, threads, requests, messages,
                   next_task_time, request_interval, request_timestamps,
                   request_sum_delay, request_counts, lock, task>>

NextBootstrap == CallPopulate

SpecBootstrap == InitBootstrap /\ [][NextBootstrap]_vars

\* ------------------------------------------------------ load_data on its own
\* load_data called on a channel that holds up to MaxThreads threads: of
\* configured tracks (several may have the same name) or of other names;
\* afterwards get_thread refreshes the thread of a track.
OtherName == NumTracks + 1

Channels ==
    UNION {[1..k -> [name : [slug : Tracks \cup {OtherName}, form : {"lower", "title"}],
                     archived : BOOLEAN,
                     starter : {None}, deleted : {FALSE}, posts : {{}}]] :
              k \in 0..MaxThreads}

InitLoad ==
    /\ now = StartTime
    /\ source = [t \in Tracks |-> {}]
    /\ sink \in Channels
    /\ next_msg_id = 1
    /\ events = 0
    /\ threads = EmptyDict
    /\ requests = EmptyDict
    /\ messages = EmptyDict
    /\ next_task_time = 0
    /\ queue = EmptyBag
    /\ request_interval = [t \in Tracks |-> DEFAULT_INTERVAL]
    /\ request_timestamps = [t \in Tracks |-> <<>>]
    /\ request_sum_delay = [t \in Tracks |-> 0]
    /\ request_counts = [t \in Tracks |-> 0]
    /\ lock = FALSE
    /\ task = <<>>
    /\ last = NoPass
    /\ hist = NoHistory

\* one call of load_data from before_task_manager
CallLoadData ==
    /\ threads # EmptyDict => events < MaxEvents
    /\ threads' = load_data(sink)
    /\ sink' = create_threads(sink)
    /\ last' = [NoPass EXCEPT !.kind = "load"]
    /\ hist' = IF threads = EmptyDict THEN hist
               ELSE [hist EXCEPT !.restarts = @ + 1]
    /\ events' = IF threads = EmptyDict THEN events ELSE events + 1
    /\ UNCHANGED <<now, source, next_msg_id, requests, messages, next_task_time,
                   queue, request_interval, request_timestamps, request_sum_delay,
                   request_counts, lock, task>>

\* Discord archives a thread self.threads refers to or makes it active again
ToggleArchived ==
    /\ \E th \in {threads[a].id : a \in DOMAIN threads} :
         /\ ~sink[th].deleted
         /\ sink' = [sink EXCEPT ![th].archived = ~@]
    /\ last' = NoPass
    /\ UNCHANGED <<now, source, next_msg_id, events, threads, requests, messages,
                   next_task_time, queue, request_interval, request_timestamps,
                   request_sum_delay, request_counts, lock, task, hist>>

\* a moderator deletes a thread of the channel
DeleteThread ==
    /\ events < MaxEvents
    /\ \E th \in DOMAIN sink :
         /\ ~sink[th].deleted
         /\ sink' = [sink EXCEPT ![th].deleted = TRUE]
    /\ events' = events + 1
    /\ last' = NoPass
    /\ UNCHANGED <<now, source, next_msg_id, threads, requests, messages,
                   next_task_time, queue, request_interval, request_timestamps,
                   request_sum_delay, request_counts, lock, task, hist>>

\* one call of get_thread
CallGetThread ==
    /\ \E track \in Tracks \cup {OtherName} :
         LET s == get_thread(State, track, "none")
         IN  /\ threads' = s.threads
             /\ last' = [NoPass EXCEPT !.kind = "get_thread", !.task = <<track>>,
                                       !.exc = s.exc, !.ops = s.ops]
    /\ UNCHANGED <<now, source, sink, next_msg_id, events, requests, messages,
                   next_task_time, queue, request_interval, request_timestamps,
                   request_sum_delay, request_counts, lock, task, hist>>

NextLoad ==
    \/ CallLoadData
    \/ ToggleArchived
    \/ DeleteThread
    \/ CallGetThread

SpecLoad == InitLoad /\ [][NextLoad]_vars

\* ------------------------------------------------- the scan called directly
\* fetch_discord_thread is called for a thread that holds any messages: of
\* the thread owner or of a member, with the url of a request or without,
\* one of them possibly the thread's starter message; the dict of the track
\* holds anything or nothing from before.
MaxScanPosts == 3

ScanContents == {Description(r) : r \in RequestIds(1)} \cup {UnarchiveText}

ScanPosts ==
    UNION {{{[id |-> i, author |-> f[i].author, content |-> f[i].content] : i \in S} :
               f \in [S -> [author : {"owner", "member"}, content : ScanContents]]} :
              S \in SUBSET (1..MaxScanPosts)}

\* a message id no message of the thread has any more
GoneMessage(r) == 90 + r

InitScan ==
    /\ now = StartTime
    /\ source = [t \in Tracks |-> {}]
    /\ \E posts \in ScanPosts : \E starter \in {None} \cup (1..MaxScanPosts) :
         \E archived \in BOOLEAN :
           sink = [t \in Tracks |->
                     IF t = 1
                     THEN [name |-> title(t), archived |-> archived, starter |-> starter,
                           deleted |-> FALSE,
                           posts |-> posts]
                     ELSE [name |-> title(t), archived |-> FALSE, starter |-> None,
                 deleted |-> FALSE, posts |-> {}]]
    /\ next_msg_id = MaxScanPosts + 1
    /\ events = 0
    /\ threads = load_data(sink)
    /\ requests = EmptyDict
    /\ messages \in {EmptyDict} \cup
                    {[t \in {1} |-> [r \in R |-> GoneMessage(r)]] : R \in SUBSET RequestIds(1)}
    /\ next_task_time = 0
    /\ queue = EmptyBag
    /\ request_interval = [t \in Tracks |-> DEFAULT_INTERVAL]
    /\ request_timestamps = [t \in Tracks |-> <<>>]
    /\ request_sum_delay = [t \in Tracks |-> 0]
    /\ request_counts = [t \in Tracks |-> 0]
    /\ lock = FALSE
    /\ task = <<>>
    /\ last = NoPass
    /\ hist = NoHistory

\* one call of fetch_discord_thread
CallFetchDiscordThread ==
    /\ \E track \in Tracks :
         \E fault \in {"none", "fetch_channel", "unarchive_send", "unarchive_delete",
                        "history"} :
           LET s == fetch_discord_thread(State, track, fault)
           IN  /\ fault # "none" => s.hit
               /\ Commit(s)
               /\ last' = [NoPass EXCEPT !.kind = "scan", !.task = <<track>>,
                                         !.exc = s.exc, !.failed = s.failed,
                                         !.ops = s.ops]
    /\ UNCHANGED <<now, source, events, next_task_time, lock, task, hist>>

NextScan == CallFetchDiscordThread

SpecScan == InitScan /\ [][NextScan]_vars

\* ================================================================ claims
\* helpers of the claims
OwnerPostsFor(track, id) ==
    {m \in sink[threads[track].id].posts :
        m.author = "owner" /\ m.content.text = "request" /\ m.content.url = id}

Handled(type) == last.kind = "handled" /\ last.task[2] = type

\* the calls to Discord and Exercism a handler makes
RemoteCalls == {"fetch_channel", "unarchive_send", "unarchive_delete", "history",
                "send", "delete", "get_requests"}

QueuedFor(type, track) == {q \in BagToSet(queue) : q[2] = type /\ q[3] = track}

\* C2: no double-posting. In every reachable state a thread holds at most one
\* post of the bot for a request uuid, and no TASK_DISCORD_ADD is dispatched
\* for a uuid that messages[track] already records.
C2_NoDoublePosting ==
    /\ \A t \in DOMAIN threads : \A id \in RequestIds(t) :
          Cardinality(OwnerPostsFor(t, id)) <= 1
    /\ (lock /\ task[2] = TASK_DISCORD_ADD) =>
          /\ task[3] \in DOMAIN messages
          /\ task[4] \notin DOMAIN messages[task[3]]

\* C2 witness: a poll of Exercism found a request that is already posted and
\* recorded, and queued nothing but the next poll.
C2_Witness ==
    /\ Handled(TASK_QUERY_EXERCISM)
    /\ last.fetched
    /\ Len(last.pushed) = 1
    /\ \E id \in source[last.task[3]] :
          /\ id \in DOMAIN messages[last.task[3]]
          /\ Cardinality(OwnerPostsFor(last.task[3], id)) = 1

\* C3: restart safety. After a restart no request that has a post in its
\* track's thread is posted again: a poll queues TASK_DISCORD_ADD only for a
\* track whose thread was scanned since the restart and only for uuids with no
\* post in the thread, and a dispatched TASK_DISCORD_ADD leaves one post.
C3_RestartSafety ==
    hist.restarts > 0 =>
        /\ Handled(TASK_QUERY_EXERCISM) =>
              \A i \in 1..Len(last.pushed) :
                 last.pushed[i][2] = TASK_DISCORD_ADD =>
                    /\ last.pushed[i][3] \in DOMAIN messages
                    /\ OwnerPostsFor(last.pushed[i][3], last.pushed[i][4]) = {}
        /\ (Handled(TASK_DISCORD_ADD) /\ last.exc = "none") =>
              Cardinality(OwnerPostsFor(last.task[3], last.task[4])) = 1
        /\ \A t \in Tracks : QueuedFor(TASK_DISCORD_ADD, t) # {} => t \in DOMAIN messages

\* C3 witness: after a restart a poll of Exercism finds a request whose post
\* was made before the restart (nothing was added since) and queues no add.
C3_Witness ==
    /\ hist.restarts > 0
    /\ Handled(TASK_QUERY_EXERCISM)
    /\ last.fetched
    /\ request_counts[last.task[3]] = 0
    /\ Len(last.pushed) = 1
    /\ \E id \in source[last.task[3]] :
          /\ id \in DOMAIN messages[last.task[3]]
          /\ OwnerPostsFor(last.task[3], id) # {}

\* the poll cycle of a track is complete: its last poll of Exercism succeeded,
\* nothing has failed or changed since, and the tasks the poll queued have
\* been dispatched
CycleComplete(t) ==
    /\ t \in hist.synced
    /\ t \in DOMAIN messages
    /\ QueuedFor(TASK_DISCORD_ADD, t) = {}
    /\ QueuedFor(TASK_DISCORD_DEL, t) = {}
    /\ ~(lock /\ task[3] = t /\ task[2] \in {TASK_DISCORD_ADD, TASK_DISCORD_DEL})

\* C1: convergence of the mirror. Once the poll cycle of a scanned track is
\* complete, every uuid Exercism reports is a key of messages[track], and of
\* the recorded uuids Exercism no longer reported at the poll all but those
\* beyond the cap of ten are gone: with at most ten to remove the keys of
\* messages[track] are the uuids Exercism reports, with more the surplus
\* shrinks by ten with every cycle.
C1_Converges ==
    \A t \in Tracks :
        CycleComplete(t) =>
            /\ source[t] \subseteq DOMAIN messages[t]
            /\ Cardinality(DOMAIN messages[t] \ source[t]) =
                  Max(0, hist.stale[t] - MAX_DEL_PER_POLL)
            /\ hist.stale[t] <= MAX_DEL_PER_POLL => DOMAIN messages[t] = source[t]

\* C1 witness: the thread held eleven posts of requests Exercism no longer
\* reports; the first poll removed ten, the second the last one, and the
\* keys of messages[track] are now the uuids Exercism reports.
C1_Witness ==
    /\ hist.restarts = 1 /\ events = MaxEvents /\ next_msg_id > BacklogSize
    /\ CycleComplete(1)
    /\ hist.stale[1] = BacklogSize - MAX_DEL_PER_POLL
    /\ DOMAIN messages[1] = source[1]
    /\ source[1] # {}
    /\ \A m \in sink[threads[1].id].posts : m.content.url \in source[1]

\* the timestamps of a track after a call of exercism_poll_interval are the
\* history it was called with (sorted when there are two or more)
Called(t) == last.kind = "interval" /\ last.task = <<t>>

\* C4: interval bounds. Every stored request_interval and every value
\* exercism_poll_interval returns lies in [300, 1800], whatever the history:
\* empty, one timestamp, repeated timestamps.
C4_IntervalBounds ==
    /\ \A t \in Tracks : request_interval[t] \in 300..1800
    /\ last.kind = "interval" => last.ret \in 300..1800

\* C4 witness: a history of repeated timestamps was given, the mean of the
\* differences is 0 and the call returned the lower bound.
C4_Witness ==
    \E t \in Tracks :
        /\ Called(t)
        /\ Len(request_timestamps[t]) >= 2
        /\ \A i \in 1..Len(request_timestamps[t]) :
              request_timestamps[t][i] = request_timestamps[t][1]
        /\ last.ret = 300

C5_Unclamped ==
    \E t \in Tracks :
        /\ Called(t)
        /\ request_timestamps[t] = <<1000, 2000>>
        /\ last.ret = 900

\* C6: with fewer than two timestamps exercism_poll_interval returns the
\* interval stored before the call and stores min(floor(1.5 * stored), 1800):
\* from the seeded 600 the returned delays are 600, 900, 1350, 1800, 1800, ...
C6_EstimatorGrowth ==
    [][\A t \in Tracks :
          (Called(t)' /\ Len(request_timestamps[t]) < 2) =>
              /\ last'.ret = request_interval[t]
              /\ request_interval'[t] =
                    IF 2 * 1800 <= 3 * request_interval[t] THEN 1800
                    ELSE (3 * request_interval[t]) \div 2
              /\ \/ last'.ret = 600 /\ request_interval'[t] = 900
                 \/ last'.ret = 900 /\ request_interval'[t] = 1350
                 \/ last'.ret = 1350 /\ request_interval'[t] = 1800
                 \/ last'.ret = 1800 /\ request_interval'[t] = 1800]_vars

\* C6 witness: a call with a one-element history returned the cap 1800 and
\* left the cap stored.
C6_Witness ==
    \E t \in Tracks :
        /\ Called(t)
        /\ Len(request_timestamps[t]) = 1
        /\ last.ret = 1800
        /\ request_interval[t] = 1800

SentTexts(ops) == [i \in 1..Len(SelectSeq(ops, LAMBDA o : o[1] = "send")) |->
                      SelectSeq(ops, LAMBDA o : o[1] = "send")[i][4]]
Deletions(ops) == Len(SelectSeq(ops, LAMBDA o : o[1] = "delete"))

\* the pass found the thread archived when it refreshed it
FoundArchived == Len(last.ops) >= 1 /\ last.ops[1] = <<"fetch_channel", last.ops[1][2], None, "archived">>

\* update_discord_add sent the request's message
Posted == Handled(TASK_DISCORD_ADD) /\ last.exc = "none" /\ last.failed = "none"

\* C8 as stated: when update_discord_del finds a recorded message for the id
\* and Discord answers the delete with NotFound, the call completes without
\* raising and afterwards the id is absent from messages[track].
C8_NotFoundForgets ==
    (/\ Handled(TASK_DISCORD_DEL)
     /\ last.failed = "delete"
     /\ \E i \in 1..Len(last.ops) : last.ops[i][1] = "delete_not_found")
    => (/\ last.exc = "none"
        /\ last.task[4] \notin DOMAIN messages[last.task[3]])

KindRank(type) ==
    CASE type = TASK_QUERY_EXERCISM -> 1
      [] type = TASK_QUERY_DISCORD -> 2
      [] type = TASK_DISCORD_ADD -> 3
      [] type = TASK_DISCORD_DEL -> 4

LexLeq(a, b) ==
    IF a[1] # b[1] THEN a[1] < b[1]
    ELSE IF a[2] # b[2] THEN KindRank(a[2]) < KindRank(b[2])
    ELSE IF a[3] # b[3] THEN a[3] < b[3]
    ELSE a[4] <= b[4]

\* C10: deterministic dispatch order. The task a pass of the task manager
\* dispatches is a minimum of the queue it was taken from under the
\* lexicographic order on (due time, kind, track, detail): no task left in
\* the queue comes before it.
C10_DispatchOrder ==
    (lock /\ task # <<>>) => \A q \in BagToSet(queue) : LexLeq(task, q)

\* C10 witness: an add is dispatched while a delete with the same due time
\* and tasks of other kinds wait in the queue.
C10_Witness ==
    /\ lock
    /\ task # <<>>
    /\ task[2] = TASK_DISCORD_ADD
    /\ \E q \in BagToSet(queue) : q[1] = task[1] /\ q[2] = TASK_DISCORD_DEL

\* the seeds of a kind the queue holds for a track
Seeds(type, track) == {q \in BagToSet(queue) : q[2] = type /\ q[3] = track}

\* C11 as stated: for every non-empty list of n configured tracks,
\* populate_task_queue pushes exactly one TASK_QUERY_DISCORD and one
\* TASK_QUERY_EXERCISM task per track (2n tasks), every seed is due within
\* 300 seconds of the time of the call, and no two tracks get the same offset.
C11_BootstrapSeeding ==
    last.kind = "populate" =>
        /\ last.exc = "none"
        /\ qsize(queue) = 2 * Cardinality(DOMAIN threads)
        /\ \A t \in DOMAIN threads :
              /\ Cardinality(Seeds(TASK_QUERY_DISCORD, t)) = 1
              /\ Cardinality(Seeds(TASK_QUERY_EXERCISM, t)) = 1
        /\ \A q \in BagToSet(queue) : q[1] >= now /\ q[1] <= now + 300
        /\ \A q1, q2 \in BagToSet(queue) :
              (q1[2] = q2[2] /\ q1[3] # q2[3]) => q1[1] # q2[1]

\* C12: reentrancy guard. A pass is running exactly while the lock is held
\* and it holds exactly one task; as long as that pass runs, no step takes
\* a task from the queue, puts one in it, or changes any other field of the
\* cog: a tick that fires meanwhile dispatches nothing and leaves no trace.
C12_ReentrancyGuard ==
    /\ [](lock <=> task # <<>>)
    /\ [][(lock /\ lock') => UNCHANGED cog_vars]_vars

\* C12 witness: a pass is running while another task of the queue is due.
C12_Witness ==
    /\ lock
    /\ \E q \in BagToSet(queue) : q[1] <= now

\* the pass that just ended handled a task whose handler raised
Failed == last.kind = "handled" /\ last.exc # "none"

\* C13: failure containment. When the handler of a task raises, the pass
\* still ends with the lock released and no task held, the tick is not held
\* back by the wake-up time, every task that waited in the queue still
\* waits, and if a task is due the next pass to touch the queue takes the
\* least one, whatever its track.
C13_FailureContained ==
    /\ [](Failed => (~lock /\ task = <<>> /\ next_task_time <= now))
    /\ [][(lock /\ last'.kind = "handled" /\ last'.exc # "none")
             => (queue \sqsubseteq queue')]_vars
    /\ [][(Failed /\ (\E q \in BagToSet(queue) : q[1] <= now)
                  /\ last'.kind = "none" /\ queue' # queue /\ events' = events)
             => (lock' /\ task' = QueueMin(queue))]_vars

\* C13 witness: a handler raised while a task of another track is due.
C13_Witness ==
    /\ Failed
    /\ \E q \in BagToSet(queue) : q[1] <= now /\ q[3] # last.task[3]

\* C14 as stated: in every reachable state the history of arrival timestamps
\* of each track has at most 15 entries and is ordered newest first
\* (non-increasing).
C14_HistoryShape ==
    \A t \in Tracks :
        /\ Len(request_timestamps[t]) <= 15
        /\ \A i \in 1..(Len(request_timestamps[t]) - 1) :
              request_timestamps[t][i] >= request_timestamps[t][i + 1]

\* C15: thread map injectivity. Once load_data has run, no two names of
\* self.threads refer to the same thread and every configured track has a
\* thread; get_thread keeps it so.
C15_ThreadMapInjective ==
    threads # EmptyDict =>
        /\ \A a, b \in DOMAIN threads : threads[a].id = threads[b].id => a = b
        /\ Tracks \subseteq DOMAIN threads
        /\ \A a \in DOMAIN threads : threads[a].id \in DOMAIN sink

\* C15 witness: load_data found two threads of one name and no thread for a
\* configured track, and get_thread has refreshed a thread since.
C15_Witness ==
    /\ last.kind = "get_thread"
    /\ last.exc = "none"
    /\ \E i, j \in DOMAIN sink : i # j /\ sink[i].name = sink[j].name
    /\ \E t \in Tracks : threads[t].id > MaxThreads

\* the posts of thread th that differ between two states of Discord
PostsChanged(a, b, th) == (a[th].posts \ b[th].posts) \cup (b[th].posts \ a[th].posts)

\* C16: one task per tick. A pass takes exactly one task from the queue
\* when it dispatches, the handler it runs takes none, the pass ends having
\* handled that one task, and it changes the posts of at most one thread by
\* at most one message, also when further tasks are due.
C16_OneTaskPerTick ==
    /\ [][(~lock /\ lock') => (queue = queue' (+) SetToBag({task'}))]_vars
    /\ [][(lock /\ last'.kind = "handled")
             => /\ last'.task = task
                /\ queue \sqsubseteq queue'
                /\ \A th \in DOMAIN sink :
                      Cardinality(PostsChanged(sink, sink', th)) <= 1
                /\ \A th1, th2 \in DOMAIN sink :
                      (PostsChanged(sink, sink', th1) # {}
                       /\ PostsChanged(sink, sink', th2) # {}) => th1 = th2]_vars

\* C16 witness: a pass has ended that changed a thread's posts while a task
\* that was waiting in the queue before the pass is still waiting, and due.
C16_Witness ==
    /\ last.kind = "handled"
    /\ last.exc = "none"
    /\ last.task[2] = TASK_DISCORD_ADD
    /\ \E q \in BagToSet(queue) : q[1] <= now /\ q[2] \in {TASK_DISCORD_ADD, TASK_DISCORD_DEL}

\* the tasks of a type among the tasks a pass put in the queue
PushedOf(type) == SelectSeq(last.pushed, LAMBDA q : q[2] = type)

\* C17: TASK_QUERY_EXERCISM always rescheduled. Every pass that handles a
\* TASK_QUERY_EXERCISM task of a track, whether the fetch succeeded, timed
\* out, raised another error or was skipped, puts exactly one new
\* TASK_QUERY_EXERCISM task in the queue, for the same track, due at the time
\* of the pass plus the delay exercism_poll_interval returned, which is at
\* least 300 and at most 1800 seconds.
C17_PollSourceRescheduled ==
    Handled(TASK_QUERY_EXERCISM) =>
        /\ PushedOf(TASK_QUERY_EXERCISM) =
              <<<<now + last.ret, TASK_QUERY_EXERCISM, last.task[3], None>>>>
        /\ last.ret >= 300
        /\ last.ret <= 1800
        /\ <<now + last.ret, TASK_QUERY_EXERCISM, last.task[3], None>> \in BagToSet(queue)
        /\ PushedOf(TASK_QUERY_DISCORD) = <<>>

\* C17 witness: the fetch of a poll timed out and the poll was queued again.
C17_Witness ==
    /\ Handled(TASK_QUERY_EXERCISM)
    /\ last.exc = "TimeoutError"
    /\ Len(last.pushed) = 1

\* further cases of C17: the fetch raised another error; the poll was
\* skipped; the fetch succeeded
C17_Error == Handled(TASK_QUERY_EXERCISM) /\ last.exc = "ClientError"
C17_Skipped ==
    Handled(TASK_QUERY_EXERCISM) /\ last.exc = "none" /\ ~last.fetched
C17_Fetched == Handled(TASK_QUERY_EXERCISM) /\ last.fetched /\ Len(last.pushed) > 1

\* C18: TASK_QUERY_DISCORD always rescheduled at a fixed cadence. Every pass
\* that handles a TASK_QUERY_DISCORD task of a track, whether the scan
\* succeeded or raised, puts exactly one new TASK_QUERY_DISCORD task in the
\* queue, for the same track, due 3600 seconds after the time of the pass,
\* whatever the track's poll interval and history are.
C18_PollSinkRescheduled ==
    Handled(TASK_QUERY_DISCORD) =>
        /\ last.pushed = <<<<now + 3600, TASK_QUERY_DISCORD, last.task[3], None>>>>
        /\ <<now + 3600, TASK_QUERY_DISCORD, last.task[3], None>> \in BagToSet(queue)

\* C18 witness: a scan raised for a track whose poll interval has grown and
\* which has a history of arrivals.
C18_Witness ==
    /\ Handled(TASK_QUERY_DISCORD)
    /\ last.exc # "none"
    /\ request_interval[last.task[3]] # DEFAULT_INTERVAL
    /\ request_timestamps[last.task[3]] # <<>>

\* the ids of the tasks of a type a pass put in the queue
PushedIds(pushed, type) ==
    {pushed[i][4] : i \in {j \in 1..Len(pushed) : pushed[j][2] = type}}

\* the tasks of a type a pass put in the queue are due at once, of one
\* track, and no two of them for the same id
PushedWell(pushed, type, track) ==
    /\ \A i \in 1..Len(pushed) :
          pushed[i][2] = type => (pushed[i][1] = 0 /\ pushed[i][3] = track)
    /\ \A i, j \in 1..Len(pushed) :
          (pushed[i][2] = type /\ pushed[j][2] = type /\ pushed[i][4] = pushed[j][4])
             => i = j

\* a pass that polls Exercism for the track of its task ends with the fetch done
PollFetched == lock /\ last'.kind = "handled" /\ last'.fetched

\* C19: deletion cap. A successful fetch_track_requests for a track queues
\* exactly min(|removed|, 10) TASK_DISCORD_DEL tasks, each for another id of
\* removed = the recorded ids minus the ids Exercism reports, and so none
\* for an id Exercism still reports.
C19_DeletionCap ==
    [][PollFetched =>
          LET removed == DOMAIN messages[task[3]] \ source[task[3]]
              ids == PushedIds(last'.pushed, TASK_DISCORD_DEL)
          IN  /\ PushedWell(last'.pushed, TASK_DISCORD_DEL, task[3])
              /\ ids \subseteq removed
              /\ ids \cap source[task[3]] = {}
              /\ Cardinality(ids) =
                    IF Cardinality(removed) <= 10 THEN Cardinality(removed) ELSE 10]_vars

\* C19 witness: a poll found eleven recorded requests gone and queued ten
\* deletions.
C19_Witness ==
    /\ Handled(TASK_QUERY_EXERCISM)
    /\ last.fetched
    /\ Len(PushedOf(TASK_DISCORD_DEL)) = 10
    /\ Cardinality(DOMAIN messages[last.task[3]] \ source[last.task[3]]) = 11

\* C20: sink mutations take priority over polls. A successful
\* fetch_track_requests queues exactly one TASK_DISCORD_ADD task per id of
\* added = the ids Exercism reports minus the recorded ids, however many,
\* and no poll of Exercism or scan of a thread, of any track, is dispatched
\* while a TASK_DISCORD_ADD or TASK_DISCORD_DEL task waits in the queue.
C20_MutationsFirst ==
    /\ [][PollFetched =>
             /\ PushedWell(last'.pushed, TASK_DISCORD_ADD, task[3])
             /\ PushedIds(last'.pushed, TASK_DISCORD_ADD) =
                   source[task[3]] \ DOMAIN messages[task[3]]]_vars
    /\ []((lock /\ task # <<>> /\ task[2] \in {TASK_QUERY_EXERCISM, TASK_QUERY_DISCORD})
             => \A q \in BagToSet(queue) :
                   q[2] \notin {TASK_DISCORD_ADD, TASK_DISCORD_DEL})

\* C20 witness: a poll queued eleven additions, more than the cap of the
\* deletions, and its own next poll behind them.
C20_Witness ==
    /\ Handled(TASK_QUERY_EXERCISM)
    /\ Len(PushedOf(TASK_DISCORD_ADD)) = 11
    /\ \E q \in BagToSet(queue) : q[2] = TASK_QUERY_EXERCISM /\ q[1] <= now + 1800

\* further case of C20: the eleven additions were all dispatched before the
\* next poll or scan
C20_AllPosted ==
    /\ lock
    /\ task[2] \in {TASK_QUERY_EXERCISM, TASK_QUERY_DISCORD}
    /\ Cardinality(sink[1].posts) = 11
    /\ next_msg_id = 12

\* C21: a task that is not yet due is not consumed. A tick at which the
\* earliest task of the queue is due later than now dispatches nothing,
\* leaves the queue as it was, and leaves next_task_time at that task's due
\* time; a tick that returns early because now < next_task_time finds
\* next_task_time already there.
C21_NotDueNotConsumed ==
    /\ [][(/\ ~lock
           /\ qsize(queue) > 0
           /\ now < QueueMin(queue)[1]
           /\ events' = events
           /\ now' = now)
          => (/\ queue' = queue
              /\ ~lock'
              /\ task' = <<>>
              /\ last'.kind = "none"
              /\ next_task_time' = QueueMin(queue)[1])]_vars
    /\ []((~lock /\ now < next_task_time)
             => (qsize(queue) > 0 /\ next_task_time = QueueMin(queue)[1]))

\* C21 witness: a tick has found the earliest task not yet due and set
\* next_task_time to its due time.
C21_Witness ==
    /\ ~lock
    /\ qsize(queue) > 0
    /\ now < next_task_time
    /\ next_task_time = QueueMin(queue)[1]
    /\ hist.restarts = 0
    /\ next_msg_id > 1

\* C22: no task is lost or merged by the queue. The queue is a multiset that
\* changes only by put_nowait calls or by removing the one task that is
\* being dispatched; whenever no pass is running, the number of put_nowait
\* calls so far equals the number of tasks dispatched plus the number still
\* queued, also when identical tuples were put twice.
C22_QueueConserves ==
    /\ [](hist.outstanding = qsize(queue))
    /\ [][\/ queue \sqsubseteq queue'
          \/ ~lock /\ lock' /\ queue = queue' (+) SetToBag({task'})
          \/ hist'.restarts # hist.restarts]_vars

\* two identical tuples were in the queue and one of them is being dispatched
C22_Witness ==
    /\ lock /\ task # <<>> /\ CopiesIn(task, queue) = 1
    /\ hist.outstanding = qsize(queue)

\* the uuids the thread of a track shows: those in the url of a message of
\* the thread owner that is not the thread's starter message
ShownIds(track) ==
    LET th == sink[threads[track].id]
    IN  {m.content.url : m \in {x \in th.posts : /\ x.author = "owner"
                                                   /\ x.id # th.starter
                                                   /\ x.content.url # None}}

Scanned == last.kind = "scan" /\ last.exc = "none"

\* C23: the scan rebuilds the dict from scratch. After a fetch_discord_thread
\* of a track that returned, messages[track] holds a uuid if and only if the
\* thread holds a message of the thread owner, other than the thread's
\* starter message, whose text has the url of that uuid, and the value is the
\* id of such a message; uuids recorded before the scan with no such message
\* are gone, and messages of other authors or without a url add nothing.
C23_ScanRebuilds ==
    Scanned =>
        LET track == last.task[1]
            th == sink[threads[track].id]
        IN  /\ track \in DOMAIN messages
            /\ DOMAIN messages[track] = ShownIds(track)
            /\ \A r \in DOMAIN messages[track] :
                  \E m \in th.posts : /\ m.id = messages[track][r]
                                       /\ m.author = "owner"
                                       /\ m.id # th.starter
                                       /\ m.content.url = r

\* a scan of an archived thread that holds a recorded message, the starter
\* message with the url of another request, and a message that counts for
\* nothing
C23_Witness ==
    /\ Scanned
    /\ last.task[1] = 1
    /\ Len(last.ops) = 3
    /\ Cardinality(DOMAIN messages[1]) = 1
    /\ \E m \in sink[1].posts :
          /\ m.id = sink[1].starter /\ m.author = "owner" /\ m.content.url # None
          /\ m.content.url \notin DOMAIN messages[1]
    /\ \E m \in sink[1].posts : m.author = "member" \/ m.content.url = None

\* C24 as stated: delete of an unrecorded uuid is a no-op. When
\* update_discord_del(track, id) is dispatched and messages[track] has no
\* entry for id, the pass sends no message to the thread and deletes none,
\* also when the thread is archived, and messages[track] is unchanged.
C24_UnmirroredDeleteNoOp ==
    [][(/\ lock
        /\ task # <<>>
        /\ task[2] = TASK_DISCORD_DEL
        /\ task[3] \in DOMAIN messages
        /\ task[4] \notin DOMAIN messages[task[3]]
        /\ last'.kind = "handled")
       => (/\ SentTexts(last'.ops) = <<>>
           /\ Deletions(last'.ops) = 0
           /\ sink'[threads[task[3]].id].posts = sink[threads[task[3]].id].posts
           /\ messages' = messages)]_vars

\* the threads of the channel whose name gives the key of a track
ThreadsOf(snk, track) == {i \in DOMAIN snk : ~snk[i].deleted /\ lower(snk[i].name) = track}

DeletedOf(snk, track) == {i \in DOMAIN snk : snk[i].deleted /\ lower(snk[i].name) = track}

\* C26: self-healing at startup. When load_data has returned, every handle
\* of self.threads refers to a thread that exists in the channel, and a track
\* all of whose threads were deleted before the run has a thread the run
\* created.
C26_SelfHealing ==
    /\ [](last.kind = "load" =>
             /\ Tracks \subseteq DOMAIN threads
             /\ \A a \in DOMAIN threads :
                   threads[a].id \in DOMAIN sink /\ ~sink[threads[a].id].deleted)
    /\ [][last'.kind = "load" =>
             \A t \in Tracks :
                (DeletedOf(sink, t) # {} /\ ThreadsOf(sink, t) = {}) =>
                    /\ threads'[t].id \in DOMAIN sink' \ DOMAIN sink
                    /\ sink'[threads'[t].id].name = title(t)]_vars

\* load_data has run over a channel in which the only thread of a track had
\* been deleted, and the track has the thread created last
C26_Witness ==
    /\ last.kind = "load"
    /\ \E t \in Tracks :
          /\ DeletedOf(sink, t) # {}
          /\ ThreadsOf(sink, t) = {Len(sink)}
          /\ threads[t].id = Len(sink)

\* what a dict of tracks holds for a track, nothing when it has no such key
EntryOf(dict, track) == IF track \in DOMAIN dict THEN <<dict[track]>> ELSE <<>>

\* the value exercism_poll_interval returns, from the history of the track
\* and the interval stored before the call alone
EstimateFrom(h, interval) ==
    IF Len(h) < 2 THEN interval
    ELSE LET scaled == (9 * (SetMax(Range(h)) - SetMin(Range(h)))) \div (10 * (Len(h) - 1))
         IN  Min(Max(scaled, EXERCISM_TRACK_POLL_MIN_SECONDS), EXERCISM_TRACK_POLL_MAX_SECONDS)

\* C27: per-track isolation. A pass that handles a task of a track, of any
\* of the four types and with the call of exercism_poll_interval when the
\* poll is queued again, leaves the recorded messages, the request
\* descriptions, the timestamp history, the delay sum, the count, the stored
\* interval and the thread of every other track as they were; and the value
\* exercism_poll_interval returns is determined by the history and the stored
\* interval of the track, whatever its delay sum and count are.
C27_TrackIsolation ==
    [][(lock /\ task # <<>> /\ last'.kind = "handled") =>
          /\ \A t \in Tracks \ {task[3]} :
                /\ EntryOf(messages', t) = EntryOf(messages, t)
                /\ EntryOf(requests', t) = EntryOf(requests, t)
                /\ EntryOf(threads', t) = EntryOf(threads, t)
                /\ request_timestamps'[t] = request_timestamps[t]
                /\ request_sum_delay'[t] = request_sum_delay[t]
                /\ request_counts'[t] = request_counts[t]
                /\ request_interval'[t] = request_interval[t]
          /\ task[2] = TASK_QUERY_EXERCISM =>
                last'.ret = EstimateFrom(request_timestamps'[task[3]],
                                         request_interval[task[3]])]_vars

\* a poll of a track with two timestamps, a delay sum and a count has been
\* handled while another track had a recorded message, a history and a count
C27_Witness ==
    /\ Handled(TASK_QUERY_EXERCISM)
    /\ last.fetched
    /\ Len(request_timestamps[last.task[3]]) >= 2
    /\ request_sum_delay[last.task[3]] > 0
    /\ request_counts[last.task[3]] >= 2
    /\ \E t \in Tracks \ {last.task[3]} :
          /\ t \in DOMAIN messages /\ DOMAIN messages[t] # {}
          /\ t \in DOMAIN requests
          /\ request_timestamps[t] # <<>>
          /\ request_counts[t] > 0

\* the additions and deletions a step put in the queue
NewMutations == {q \in BagToSet(queue') : /\ q[2] \in {TASK_DISCORD_ADD, TASK_DISCORD_DEL}
                                          /\ CopiesIn(q, queue') > CopiesIn(q, queue)}

\* C28: no immediate retry of failed additions and deletions. A pass whose
\* TASK_DISCORD_ADD or TASK_DISCORD_DEL task failed (a timeout or another
\* error, NotFound included) puts no task in the queue and does not put the
\* failed task back; an addition or deletion of a (track, uuid) enters the
\* queue only in a pass that polls Exercism for that track, and only while
\* Exercism reports a uuid that is not recorded (addition) or a recorded uuid
\* is no longer reported (deletion).
C28_NoImmediateRetry ==
    /\ [][(/\ lock /\ task # <<>>
           /\ task[2] \in {TASK_DISCORD_ADD, TASK_DISCORD_DEL}
           /\ last'.kind = "handled"
           /\ (last'.exc # "none" \/ last'.failed # "none"))
          => (last'.pushed = <<>> /\ queue' = queue)]_vars
    /\ [][\A q \in NewMutations :
             /\ lock /\ task # <<>>
             /\ task[2] = TASK_QUERY_EXERCISM
             /\ task[3] = q[3]
             /\ last'.kind = "handled" /\ last'.fetched
             /\ q[3] \in DOMAIN messages
             /\ q[2] = TASK_DISCORD_ADD =>
                   q[4] \in source[q[3]] \ DOMAIN messages[q[3]]
             /\ q[2] = TASK_DISCORD_DEL =>
                   q[4] \in DOMAIN messages[q[3]] \ source[q[3]]]_vars

\* a poll of Exercism has queued again an addition or deletion whose last
\* pass had failed
C28_Witness ==
    /\ Handled(TASK_QUERY_EXERCISM)
    /\ \E i \in 1..Len(last.pushed) :
          /\ last.pushed[i][2] \in {TASK_DISCORD_ADD, TASK_DISCORD_DEL}
          /\ <<last.pushed[i][2], last.pushed[i][3], last.pushed[i][4]>> \in hist.unapplied
          /\ BagIn(last.pushed[i], queue)

\* the uuids recorded for a track
Recorded(dict, track) == IF track \in DOMAIN dict THEN DOMAIN dict[track] ELSE {}

\* the pass that ends with this step sent a message
SendsInPass == \E i \in 1..Len(last'.ops) : last'.ops[i][1] = "send"

\* C29: who changes the recorded messages. Within one process a uuid enters
\* messages[track] only in a TASK_DISCORD_ADD pass of that track and uuid
\* whose send succeeded or in a scan of the track's thread, and leaves it only
\* in a TASK_DISCORD_DEL pass of that track and uuid or in a scan of the
\* track's thread; a poll of Exercism never changes messages, and a
\* TASK_DISCORD_ADD pass whose send failed records nothing.
C29_WhoChangesMessages ==
    [][hist'.restarts = hist.restarts =>
         /\ \A t \in Tracks :
               /\ \A id \in Recorded(messages', t) \ Recorded(messages, t) :
                     /\ lock /\ task # <<>> /\ task[3] = t
                     /\ \/ /\ task[2] = TASK_DISCORD_ADD /\ task[4] = id
                           /\ SendsInPass /\ last'.exc = "none"
                        \/ task[2] = TASK_QUERY_DISCORD /\ last'.exc = "none"
               /\ \A id \in Recorded(messages, t) \ Recorded(messages', t) :
                     /\ lock /\ task # <<>> /\ task[3] = t
                     /\ \/ task[2] = TASK_DISCORD_DEL /\ task[4] = id
                        \/ task[2] = TASK_QUERY_DISCORD /\ last'.exc = "none"
         /\ (lock /\ task # <<>> /\ task[2] = TASK_QUERY_EXERCISM) => messages' = messages
         /\ (lock /\ task # <<>> /\ task[2] = TASK_DISCORD_ADD
                  /\ (~SendsInPass \/ last'.exc # "none")) => messages' = messages]_vars

\* a deletion has removed a recorded uuid while an addition of another track
\* that failed has left its uuid unrecorded
C29_Witness ==
    /\ Handled(TASK_DISCORD_DEL)
    /\ last.task[4] \in hist.deleted
    /\ last.task[4] \notin Recorded(messages, last.task[3])
    /\ \E u \in hist.unapplied :
          /\ u[1] = TASK_DISCORD_ADD
          /\ u[2] # last.task[3]
          /\ u[3] \notin Recorded(messages, u[2])
          /\ u[3] \in source[u[2]]

\* the bag of the entries of a list
SeqToBag(seq) == [v \in Range(seq) |-> Cardinality({i \in DOMAIN seq : seq[i] = v})]

\* C30: the history keeps the newest 15. After a poll of Exercism that finds
\* new uuids, the history of the track holds, as a multiset, the 15 largest
\* of the timestamps it held before together with the timestamps of the new
\* requests (all of them when there are at most 15); a poll that finds no
\* new uuid leaves the history, the delay sum and the count as they were.
C30_HistoryKeepsNewest ==
    [][(/\ lock /\ task # <<>>
        /\ task[2] = TASK_QUERY_EXERCISM
        /\ last'.kind = "handled" /\ last'.fetched) =>
          LET t == task[3]
              adds == source[t] \ DOMAIN messages[t]
              all == SeqToBag(request_timestamps[t]) (+) SetToBag({Timestamp(id) : id \in adds})
              kept == SeqToBag(request_timestamps'[t])
          IN  IF adds = {}
              THEN /\ request_timestamps'[t] = request_timestamps[t]
                   /\ request_sum_delay'[t] = request_sum_delay[t]
                   /\ request_counts'[t] = request_counts[t]
              ELSE /\ kept \sqsubseteq all
                   /\ BagCardinality(kept) = Min(15, BagCardinality(all))
                   /\ \A x \in BagToSet(all (-) kept) : \A y \in BagToSet(kept) : x <= y]_vars

\* a poll found new requests for a track whose history was full: 15
\* timestamps are kept, a new one among them, and the oldest is gone
C30_Witness ==
    /\ Handled(TASK_QUERY_EXERCISM)
    /\ last.fetched
    /\ last.task[3] = 1
    /\ Len(request_timestamps[1]) = 15
    /\ request_counts[1] > 15
    /\ PriorTimestamp(1) \notin Range(request_timestamps[1])
    /\ \E i \in 1..Len(last.pushed) :
          /\ last.pushed[i][2] = TASK_DISCORD_ADD
          /\ Timestamp(last.pushed[i][4]) \in Range(request_timestamps[1])

\* C31: the wake-up time is safe. In every reachable state in which
\* now < next_task_time, every task in the queue is due at next_task_time or
\* later, so the ticks skipped until next_task_time pass over no task that
\* is due; in particular no TASK_DISCORD_ADD or TASK_DISCORD_DEL task (due
\* time 0) is in the queue then.
C31_WakeHintSafe ==
    now < next_task_time =>
        /\ \A q \in BagToSet(queue) : q[1] >= next_task_time
        /\ \A q \in BagToSet(queue) : q[2] \notin {TASK_DISCORD_ADD, TASK_DISCORD_DEL}

\* the loop waits for the wake-up time after additions were queued and
\* dispatched, one of which failed
C31_Witness ==
    /\ ~lock
    /\ now < next_task_time
    /\ qsize(queue) > 0
    /\ hist.unapplied # {}
    /\ next_msg_id > 1

\* how many tasks of a type the queue holds for a track, copies counted
PollCount(type, track) ==
    BagCardinality([q \in {x \in BagToSet(queue) : x[2] = type /\ x[3] = track} |->
                       CopiesIn(q, queue)])

\* C32: exactly one poll of each kind per track. Whenever no pass is
\* running, the queue holds exactly one TASK_QUERY_EXERCISM task and exactly
\* one TASK_QUERY_DISCORD task for every configured track, whatever passes
\* succeeded or failed before; while a pass handles a poll, that one poll is
\* out of the queue and no other.
C32_OnePollPerTrack ==
    \A t \in Tracks : \A type \in {TASK_QUERY_EXERCISM, TASK_QUERY_DISCORD} :
        PollCount(type, t) =
            IF lock /\ task # <<>> /\ task[2] = type /\ task[3] = t THEN 0 ELSE 1

\* a scan of a thread has failed, the second event of the run, and the loop
\* is idle with the polls of every track in the queue
C32_Witness ==
    /\ ~lock
    /\ Handled(TASK_QUERY_DISCORD)
    /\ last.exc # "none"
    /\ events = MaxEvents
    /\ \A t \in Tracks : PollCount(TASK_QUERY_DISCORD, t) = 1
    /\ \A t \in Tracks : PollCount(TASK_QUERY_EXERCISM, t) = 1

\* the additions and deletions waiting in the queue
Mutations == {q \in BagToSet(queue) : q[2] \in {TASK_DISCORD_ADD, TASK_DISCORD_DEL}}

\* C33: no duplicate additions or deletions. In every reachable state the
\* queue holds at most one TASK_DISCORD_ADD task and at most one
\* TASK_DISCORD_DEL task per (track, uuid) and never both for the same
\* (track, uuid); and whenever a TASK_QUERY_EXERCISM or TASK_QUERY_DISCORD
\* task is dispatched the queue holds no addition or deletion at all.
C33_NoDuplicateMutations ==
    /\ \A q \in Mutations : CopiesIn(q, queue) = 1
    /\ \A p, q \in Mutations : (p[3] = q[3] /\ p[4] = q[4]) => p = q
    /\ (lock /\ task # <<>> /\ task[2] \in {TASK_QUERY_EXERCISM, TASK_QUERY_DISCORD})
          => Mutations = {}

\* a poll has queued an addition and a deletion for the same track, both
\* still waiting
C33_Witness ==
    /\ Handled(TASK_QUERY_EXERCISM)
    /\ \E p, q \in Mutations :
          /\ p[2] = TASK_DISCORD_ADD /\ q[2] = TASK_DISCORD_DEL
          /\ p[3] = q[3] /\ p[4] # q[4]

\* the additions dispatched or waiting
PendingAdds ==
    {q \in BagToSet(queue) : q[2] = TASK_DISCORD_ADD}
      \cup (IF lock /\ task # <<>> /\ task[2] = TASK_DISCORD_ADD THEN {task} ELSE {})

\* C34: an addition always finds its description. Whenever a
\* TASK_DISCORD_ADD task for (track, uuid) is dispatched, and as long as it
\* waits in the queue, requests[track] holds the uuid with the description
\* of that request: the dict stored by the poll that queued the task has not
\* been replaced by a later poll of the track.
C34_AddFindsDescription ==
    \A q \in PendingAdds :
        /\ q[3] \in DOMAIN requests
        /\ q[4] \in DOMAIN requests[q[3]]
        /\ requests[q[3]][q[4]] = Description(q[4])

\* an addition is dispatched that a later poll queued again after it had
\* failed, and the other track has been polled as well
C34_Witness ==
    /\ lock /\ task # <<>>
    /\ task[2] = TASK_DISCORD_ADD
    /\ <<TASK_DISCORD_ADD, task[3], task[4]>> \in hist.unapplied
    /\ task[4] \in DOMAIN requests[task[3]]
    /\ DOMAIN requests = Tracks


\* the pass that now ends handles a TASK_QUERY_EXERCISM task of a track that
\* is not in self.messages: no scan of its thread has succeeded since the
\* construction
UnscannedPoll ==
    /\ lock
    /\ task # <<>>
    /\ task[2] = TASK_QUERY_EXERCISM
    /\ task[3] \notin DOMAIN messages
    /\ last'.kind = "handled"

\* what the pass of UnscannedPoll leaves alone and what it queues
UnscannedPollFrame ==
    /\ ~last'.fetched
    /\ last'.ops = <<>>
    /\ last'.exc = "none"
    /\ requests' = requests
    /\ request_timestamps' = request_timestamps
    /\ request_sum_delay' = request_sum_delay
    /\ request_counts' = request_counts
    /\ messages' = messages
    /\ env_vars' = env_vars
    /\ last'.pushed = <<<<now + last'.ret, TASK_QUERY_EXERCISM, task[3], None>>>>

\* C35: the scan precedes the reconciliation. A TASK_QUERY_EXERCISM task of
\* a track is dispatched only after a TASK_QUERY_DISCORD task of the track
\* has been dispatched, and a TASK_QUERY_EXERCISM pass for a track that is not
\* in self.messages calls neither Exercism nor Discord, leaves the requests,
\* the timestamps, the sum of delays and the counts as they were and queues
\* no addition and no deletion: it queues the next TASK_QUERY_EXERCISM task
\* only. The exercism_poll_interval call of that rescheduling finds fewer
\* than two timestamps and so grows the stored request_interval of the track
\* by half, up to 1800; the other tracks' intervals stay.
C35_ScanBeforePoll ==
    /\ [][(lock' /\ task' # <<>> /\ task'[2] = TASK_QUERY_EXERCISM)
              => task'[3] \in hist'.scanned]_vars
    /\ [][UnscannedPoll =>
              /\ UnscannedPollFrame
              /\ last'.ret = request_interval[task[3]]
              /\ request_interval' =
                    [request_interval EXCEPT
                        ![task[3]] = Min((3 * @) \div 2, EXERCISM_TRACK_POLL_MAX_SECONDS)]]_vars

\* a poll of a track whose first scan failed has just been skipped, and the
\* stored interval of the track has grown from 600 to 900
C35_Witness ==
    /\ Handled(TASK_QUERY_EXERCISM)
    /\ ~last.fetched
    /\ last.task[3] \notin DOMAIN messages
    /\ last.task[3] \in hist.scanned
    /\ last.ret = 600
    /\ request_interval[last.task[3]] = 900

\* C35 as stated: the skipped poll changes no statistics at all, the stored
\* interval included
C35_SkippedPollChangesNothing ==
    [][UnscannedPoll => UnscannedPollFrame /\ request_interval' = request_interval]_vars


\* the pass that now ends handled a TASK_QUERY_DISCORD task and its handler
\* raised
ScanRaised ==
    /\ lock
    /\ task # <<>>
    /\ task[2] = TASK_QUERY_DISCORD
    /\ last'.kind = "handled"
    /\ last'.exc # "none"

\* C36: a failed scan changes nothing. When fetch_discord_thread raises, in
\* get_thread, in unarchive or while it reads the history, self.messages is
\* after the pass exactly what it was when the task was dispatched, for the
\* track of the task and for every other track; the requests and the
\* estimator's state are untouched too.
C36_FailedScanChangesNothing ==
    [][ScanRaised =>
          /\ messages' = messages
          /\ requests' = requests
          /\ request_timestamps' = request_timestamps
          /\ request_sum_delay' = request_sum_delay
          /\ request_counts' = request_counts
          /\ request_interval' = request_interval]_vars

\* a scan has just failed while reading the history of a thread for which
\* messages are recorded, one of them for a request whose message is no
\* longer in the thread
C36_Witness ==
    /\ Handled(TASK_QUERY_DISCORD)
    /\ last.failed = "history"
    /\ last.exc = "TimeoutError"
    /\ last.task[3] \in DOMAIN messages
    /\ \E r \in DOMAIN messages[last.task[3]] :
           messages[last.task[3]][r] \notin PostIds(State, threads[last.task[3]].id)

\* further cases of C36: the refresh of the thread raised; the unarchive
\* raised after its message was sent
C36_RefreshRaised ==
    /\ Handled(TASK_QUERY_DISCORD)
    /\ last.failed = "fetch_channel"
    /\ last.task[3] \in DOMAIN messages
    /\ messages[last.task[3]] # EmptyDict
C36_UnarchiveRaised ==
    /\ Handled(TASK_QUERY_DISCORD)
    /\ last.failed = "unarchive_delete"
    /\ last.task[3] \in DOMAIN messages
    /\ messages[last.task[3]] # EmptyDict


\* ---------------------------------------------------------------- liveness
\* The loop keeps running: tasks.loop fires task_manager every LOOP_SECONDS
\* for as long as the cog is loaded, so a pass that can begin does begin; an
\* awaited handler returns or raises, so a pass that has taken a task ends;
\* and the clock reaches the wake-up time.
\* PassRun is enabled exactly while the lock is held and every step of it
\* releases the lock, so weak fairness of PassRun is that the lock is free
\* again and again.
HandlersEnd == []<>(~lock)

Fairness ==
    /\ WF_vars(PassStart)
    /\ WF_vars(Sleep)
    /\ HandlersEnd

\* the running program with Exercism's requests changing and calls failing;
\* what else happens to Discord's threads does not bear on which task is
\* taken next
NextLive ==
    \/ TickLocked
    \/ PassStart
    \/ PassRun
    \/ Sleep
    \/ Elapse
    \/ SourceChange
    \/ Restart

SpecLive == Init /\ [][NextLive]_vars /\ Fairness

\* the task of this type, track and details waits in the queue, due within
\* the time the model covers
Waits(type, track, details) ==
    \E q \in BagToSet(queue) :
        /\ q[2] = type
        /\ q[3] = track
        /\ q[4] = details
        /\ q[1] <= StartTime + Horizon

\* the task of this type, track and details has been taken for dispatch
Dispatched(type, track, details) ==
    /\ lock
    /\ task # <<>>
    /\ task[2] = type
    /\ task[3] = track
    /\ task[4] = details

\* the cog has just been constructed again: the queue of the process before
\* is gone with it
Reconstructed ==
    /\ hist.restarts > 0
    /\ hist = [NoHistory EXCEPT !.restarts = hist.restarts,
                                !.outstanding = SeedCount(NumTracks)]

\* C37: no starvation. With the loop running, every task in the queue is
\* eventually taken for dispatch, unless the process ends first: the poll of
\* Exercism and the scan of every track, whatever additions and deletions
\* are due before them, and every addition and deletion.
C37_NoStarvation ==
    /\ \A t \in Tracks : \A type \in {TASK_QUERY_EXERCISM, TASK_QUERY_DISCORD} :
           Waits(type, t, None) ~> (Dispatched(type, t, None) \/ Reconstructed)
    /\ \A t \in Tracks : \A r \in RequestIds(t) :
         \A type \in {TASK_DISCORD_ADD, TASK_DISCORD_DEL} :
           Waits(type, t, r) ~> (Dispatched(type, t, r) \/ Reconstructed)

\* a poll of Exercism is taken for dispatch, after its due time and after
\* additions and a deletion of another track were handled
C37_Witness ==
    /\ Dispatched(TASK_QUERY_EXERCISM, task[3], None)
    /\ task[1] < now
    /\ \E t \in Tracks \ {task[3]} :
           /\ t \in DOMAIN messages
           /\ messages[t] # EmptyDict
           /\ hist.deleted \cap RequestIds(t) # {}



\* the pass that now ends handled the TASK_QUERY_EXERCISM task of the track:
\* its queue_query_exercism called exercism_poll_interval, with the
\* timestamps the pass leaves behind
PollEnds(t) ==
    /\ lock
    /\ task # <<>>
    /\ task[2] = TASK_QUERY_EXERCISM
    /\ task[3] = t
    /\ last'.kind = "handled"

\* C38: the stored interval only grows. Within one process the stored
\* request_interval of a track never decreases; it changes only in a pass
\* whose exercism_poll_interval call for the track found fewer than two
\* timestamps, and a call that found two or more leaves it as it was.
C38_StoredIntervalOnlyGrows ==
    [][hist'.restarts = hist.restarts =>
          \A t \in Tracks :
              /\ request_interval'[t] >= request_interval[t]
              /\ request_interval'[t] # request_interval[t] =>
                    PollEnds(t) /\ Len(request_timestamps'[t]) < 2
              /\ (PollEnds(t) /\ Len(request_timestamps'[t]) >= 2) =>
                    request_interval'[t] = request_interval[t]]_vars

\* a poll of a track with two timestamps has just been rescheduled with a
\* delay below the stored interval, which earlier calls had grown and this
\* one left as it was
C38_Witness ==
    /\ Handled(TASK_QUERY_EXERCISM)
    /\ Len(request_timestamps[last.task[3]]) >= 2
    /\ request_interval[last.task[3]] > DEFAULT_INTERVAL
    /\ last.ret < request_interval[last.task[3]]
    /\ hist.restarts = 0

====
